---- MODULE Spec2Model ----
(***************************************************************************)
(* Model of the hybrid route optimizer of backend/quantum_optimizer.py     *)
(* (HybridQuantumOptimizer.optimize_route and the algorithms it runs) and  *)
(* of the cost functions of backend/classical_optimizer.py and             *)
(* backend/quantum_layer.py.                                               *)
(*                                                                         *)
(* Conventions.                                                            *)
(*  - A route is a sequence of node indices; Python position k is TLA+     *)
(*    position k+1.  The distance matrix is a function dm[i][j] over       *)
(*    0..n-1.  Distances are integers (a fixed unit of length).            *)
(*  - numpy's process-wide generator (np.random) is the variable rng: a    *)
(*    generator with RngMod states.  A draw reads the state as the uniform *)
(*    variate rng/RngMod in [0,1) and advances it; np.random.seed(s)       *)
(*    overwrites it.  Every initial state of the generator is explored.    *)
(*  - The quantum sampler (qiskit) is outside the repository: one run      *)
(*    either raises or returns measurement counts, chosen with \E.         *)
(*  - float('inf') is the number Inf, above every route cost of the model. *)
(***************************************************************************)
EXTENDS Integers, Sequences, FiniteSets, TLC

(* ------------------------------ bounds --------------------------------- *)
MaxN == 9
MaxDist == 4
MaxShape == 1
RngMod == 3
MaxPattern == 1
MaxIterations == 2
PopulationSize == 3
Generations == 1
NAnts == 2
NIterations == 2
MaxLen == 3
MaxSeed == 5
MaxThreeOptSeed == 6
MaxRandomSeed == 2
MaxClassicalIterations == 2
MaxCoolingN == 4
MaxBreedGenerations == 2

(* ------------------------- program constants --------------------------- *)
Inf == 100000000
QaoaMaxNodes == 8
GaMinNodes == 5
AcoMinNodes == 4
ThreeOptMinNodes == 6
TwoOptMaxIterations == 100
Restarts == 3
TournamentSize == 3
MaxQubits == 20
SeedMod == 10000
InitialTempMilli == 1000000
FinalTempMilli == 1000
CoolingRateMilli == 995
MutationRatePercent == 10
TwoOptSwapMinNodes == 4
MutateMinNodes == 3
DecodeAttempts == 5
ParameterSets == 3
ClassicalTwoOptMaxIterations == 50
LayerParameterSets == 6
LayerCandidates == 3
ClassicalInitialTempMilli == 100000
ClassicalFinalTempMilli == 1000
ClassicalCoolingRateMilli == 950
ClassicalTwoOptSwapMinNodes == 4
MinStops == 2
HybridSaMaxIterations == 1000
ClassicalSaMaxIterations == 100

(* ------------------------------ helpers -------------------------------- *)
\* x = value, then Body(x): a local variable, its value computed once
With(value, Body(_)) == CHOOSE out \in {Body(x) : x \in {value}} : TRUE

Nodes(count) == 0 .. (count - 1)

\* route[k] with Python's 0-based k
At(route, k) == route[k + 1]

\* s[::-1]
Rev(s) == [k \in 1 .. Len(s) |-> s[Len(s) + 1 - k]]

\* route[i:j+1] = route[i:j+1][::-1]   (Python positions i..j inclusive)
ReverseSlice(route, i, j) ==
    SubSeq(route, 1, i) \o Rev(SubSeq(route, i + 1, j + 1))
                        \o SubSeq(route, j + 2, Len(route))

InRoute(x, route) == \E k \in 1 .. Len(route) : route[k] = x

\* list(range(count))
Range(count) == [k \in 1 .. count |-> k - 1]

\* the route invariant of the data model: a permutation of 0..count-1
IsPermutation(route, count) ==
    /\ Len(route) = count
    /\ \A x \in Nodes(count) : \E k \in 1 .. count : route[k] = x

\* if cost < best_cost: best_cost = cost; best_route = route
KeepLower(best, route, cost) ==
    IF cost < best.cost THEN [route |-> route, cost |-> cost] ELSE best

\* a faulty np.random.seed: the state the generator was in is kept
SeedKeepsState(state, seed) == state

(* --------------------------- np.random model --------------------------- *)
\* the generator state after one draw
NextRng(r) == (r + 1) % RngMod

\* np.random.seed(seed)
SeedRng(seed) == seed % RngMod

\* np.random.seed(seed) on a generator in any state: the state is replaced
np_random_seed(state, seed) == SeedRng(seed)

\* np.random.randint(lo, hi) read from state r: lo + floor(u * (hi - lo)), u = r/RngMod
RandInt(r, lo, hi) == lo + ((r * (hi - lo)) \div RngMod)

\* np.random.random() < num/den read from state r
RandomBelow(r, num, den) == r * den < RngMod * num

(* ------------------------------ cost ----------------------------------- *)
RECURSIVE CostLoop(_, _, _, _)
CostLoop(route, dm, i, total_cost) ==
    IF i >= Len(route) - 1 THEN total_cost
    ELSE CostLoop(route, dm, i + 1, total_cost + dm[At(route, i)][At(route, i + 1)])

\* a faulty calculate_route_cost: the cost of the closed tour, with the edge
\* from the last node back to the first
ClosedTourCost(route, dm) ==
    IF Len(route) < 2 THEN 0
    ELSE CostLoop(route, dm, 0, 0) + dm[route[Len(route)]][route[1]]

\* HybridQuantumOptimizer.calculate_route_cost
calculate_route_cost(route, dm) ==
    IF Len(route) < 2 THEN 0 ELSE CostLoop(route, dm, 0, 0)

RECURSIVE ClassicalCostLoop(_, _, _, _)
ClassicalCostLoop(route, dm, i, total_cost) ==
    IF i >= Len(route) - 1 THEN total_cost
    ELSE ClassicalCostLoop(route, dm, i + 1,
                           total_cost + dm[At(route, i)][At(route, i + 1)])

\* ClassicalOptimizer.calculate_route_cost
classical_calculate_route_cost(route, dm) ==
    IF Len(route) < 2 THEN 0 ELSE ClassicalCostLoop(route, dm, 0, 0)

RECURSIVE LayerCostLoop(_, _, _, _)
LayerCostLoop(route, dm, i, total_cost) ==
    IF i >= Len(route) - 1 THEN total_cost
    ELSE LayerCostLoop(route, dm, i + 1,
                       total_cost + dm[At(route, i)][At(route, i + 1)])

\* QuantumLayer.calculate_route_cost
layer_calculate_route_cost(route, dm) ==
    IF Len(route) < 2 THEN 0 ELSE LayerCostLoop(route, dm, 0, 0)

(* ------------------------- nearest neighbour --------------------------- *)
\* min(remaining, key=lambda x: dm[current][x]): the first minimum in the
\* iteration order of a set of small integers, which is ascending
NearestOf(dm, current, remaining) ==
    CHOOSE x \in remaining :
        \A y \in remaining :
            \/ dm[current][x] < dm[current][y]
            \/ (dm[current][x] = dm[current][y] /\ x <= y)

RECURSIVE NearestNeighborLoop(_, _, _, _)
NearestNeighborLoop(dm, route, remaining, current) ==
    IF remaining = {} THEN route
    ELSE With(NearestOf(dm, current, remaining), LAMBDA nearest :
             NearestNeighborLoop(dm, Append(route, nearest),
                                 remaining \ {nearest}, nearest))

\* remaining.remove(start_index) raises KeyError when start_index is no node
NearestNeighborRaises(n, start) == start \notin Nodes(n)

\* HybridQuantumOptimizer.nearest_neighbor_heuristic (when it does not raise)
\* a faulty nearest neighbour route: built from node 0 whatever the start
NearestNeighborFromZero(dm, n, start) ==
    NearestNeighborLoop(dm, <<0>>, Nodes(n) \ {0}, 0)

nearest_neighbor_heuristic(dm, n, start) ==
    NearestNeighborLoop(dm, <<start>>, Nodes(n) \ {start}, start)

(* -------------------------------- 2-opt -------------------------------- *)
\* a faulty test: new_dist > current_dist, the comparison turned around
TwoOptGainReversed(route, dm, i, j) ==
    dm[At(route, i - 1)][At(route, j)] + dm[At(route, i)][At(route, (j + 1) % Len(route))]
    > dm[At(route, i - 1)][At(route, i)] + dm[At(route, j)][At(route, (j + 1) % Len(route))]

\* new_dist < current_dist for the pair (i, j)
TwoOptGain(route, dm, i, j) ==
    dm[At(route, i - 1)][At(route, j)] + dm[At(route, i)][At(route, (j + 1) % Len(route))]
    < dm[At(route, i - 1)][At(route, i)] + dm[At(route, j)][At(route, (j + 1) % Len(route))]

\* one sweep of the two for loops, from position (i, j)
RECURSIVE TwoOptSweep(_, _, _, _, _)
TwoOptSweep(route, dm, i, j, improved) ==
    IF i >= Len(route) - 1 THEN [route |-> route, improved |-> improved]
    ELSE IF j >= Len(route) THEN TwoOptSweep(route, dm, i + 1, i + 2, improved)
    ELSE IF TwoOptGain(route, dm, i, j)
         THEN With(ReverseSlice(route, i, j), LAMBDA swapped :
                  TwoOptSweep(swapped, dm, i, j + 1, TRUE))
         ELSE TwoOptSweep(route, dm, i, j + 1, improved)

\* a faulty loop: a single sweep, "if improved" in place of "while improved"
TwoOptSingleSweep(route, dm, improved, iteration) ==
    TwoOptSweep(route, dm, 1, 2, FALSE).route

\* one pass of "while improved and iteration < max_iterations" from the
\* locals s; locals the loop has ended with stay as they are
TwoOptPass(s, dm) ==
    IF s.improved /\ s.iteration < TwoOptMaxIterations
    THEN With(TwoOptSweep(s.route, dm, 1, 2, FALSE), LAMBDA swept :
             [route |-> swept.route, improved |-> swept.improved,
              iteration |-> s.iteration + 1])
    ELSE s

\* up to count passes of the while loop, taken half by half: on a matrix that
\* is not symmetric the loop can run to its cap
RECURSIVE TwoOptPasses(_, _, _)
TwoOptPasses(s, dm, count) ==
    IF count <= 0 THEN s
    ELSE IF count = 1 THEN TwoOptPass(s, dm)
    ELSE With(TwoOptPasses(s, dm, count \div 2), LAMBDA half :
             IF half.improved /\ half.iteration < TwoOptMaxIterations
             THEN TwoOptPasses(half, dm, count - (count \div 2))
             ELSE half)

\* while improved and iteration < max_iterations
TwoOptWhile(route, dm, improved, iteration) ==
    With([route |-> route, improved |-> improved, iteration |-> iteration],
         LAMBDA s : TwoOptPasses(s, dm, TwoOptMaxIterations - iteration).route)

\* HybridQuantumOptimizer.two_opt_improvement
two_opt_improvement(route, dm) == TwoOptWhile(route, dm, TRUE, 0)

\* the value of iteration when the while loop of two_opt_improvement ends
RECURSIVE TwoOptIterations(_, _, _, _)
TwoOptIterations(route, dm, improved, iteration) ==
    IF improved /\ iteration < TwoOptMaxIterations
    THEN With(TwoOptSweep(route, dm, 1, 2, FALSE), LAMBDA s :
             TwoOptIterations(s.route, dm, s.improved, iteration + 1))
    ELSE iteration

\* ClassicalOptimizer.two_opt_optimization: new_dist < current_dist
ClassicalTwoOptGain(route, dm, i, j) ==
    dm[At(route, i - 1)][At(route, j)] + dm[At(route, i)][At(route, (j + 1) % Len(route))]
    < dm[At(route, i - 1)][At(route, i)] + dm[At(route, j)][At(route, (j + 1) % Len(route))]

\* one sweep of its two for loops, from position (i, j)
RECURSIVE ClassicalTwoOptSweep(_, _, _, _, _)
ClassicalTwoOptSweep(route, dm, i, j, improved) ==
    IF i >= Len(route) - 1 THEN [route |-> route, improved |-> improved]
    ELSE IF j >= Len(route) THEN ClassicalTwoOptSweep(route, dm, i + 1, i + 2, improved)
    ELSE IF ClassicalTwoOptGain(route, dm, i, j)
         THEN With(ReverseSlice(route, i, j), LAMBDA swapped :
                  ClassicalTwoOptSweep(swapped, dm, i, j + 1, TRUE))
         ELSE ClassicalTwoOptSweep(route, dm, i, j + 1, improved)

\* while improved and iteration < max_iterations, with max_iterations = 50
RECURSIVE ClassicalTwoOptWhile(_, _, _, _)
ClassicalTwoOptWhile(route, dm, improved, iteration) ==
    IF improved /\ iteration < ClassicalTwoOptMaxIterations
    THEN With(ClassicalTwoOptSweep(route, dm, 1, 2, FALSE), LAMBDA s :
             ClassicalTwoOptWhile(s.route, dm, s.improved, iteration + 1))
    ELSE route

\* ClassicalOptimizer.two_opt_optimization
two_opt_optimization(route, dm) == ClassicalTwoOptWhile(route, dm, TRUE, 0)

\* the value of iteration when the while loop of two_opt_optimization ends
RECURSIVE ClassicalTwoOptIterations(_, _, _, _)
ClassicalTwoOptIterations(route, dm, improved, iteration) ==
    IF improved /\ iteration < ClassicalTwoOptMaxIterations
    THEN With(ClassicalTwoOptSweep(route, dm, 1, 2, FALSE), LAMBDA s :
             ClassicalTwoOptIterations(s.route, dm, s.improved, iteration + 1))
    ELSE iteration

(* -------------------------------- 3-opt -------------------------------- *)
\* the seven reconnections of the segments
SegmentMoves(seg1, seg2, seg3, seg4) ==
    << seg1 \o Rev(seg2) \o seg3 \o seg4,
       seg1 \o seg2 \o Rev(seg3) \o seg4,
       seg1 \o Rev(seg2) \o Rev(seg3) \o seg4,
       seg1 \o seg3 \o seg2 \o seg4,
       seg1 \o Rev(seg3) \o seg2 \o seg4,
       seg1 \o seg3 \o Rev(seg2) \o seg4,
       seg1 \o Rev(seg3) \o Rev(seg2) \o seg4 >>

\* HybridQuantumOptimizer.generate_3opt_moves
generate_3opt_moves(route, i, j, k) ==
    SegmentMoves(SubSeq(route, 1, i), SubSeq(route, i + 1, j),
                 SubSeq(route, j + 1, k), SubSeq(route, k + 1, Len(route)))

\* for new_route in new_routes: keep it when its cost is strictly lower
RECURSIVE BestOfMoves(_, _, _, _)
BestOfMoves(new_routes, dm, m, best) ==
    IF m > Len(new_routes) THEN best
    ELSE BestOfMoves(new_routes, dm, m + 1,
                     KeepLower(best, new_routes[m],
                               calculate_route_cost(new_routes[m], dm)))

\* for k in range(j + 1, n_nodes)
RECURSIVE ThreeOptK(_, _, _, _, _, _)
ThreeOptK(route, dm, i, j, k, best) ==
    IF k >= Len(route) THEN best
    ELSE With(BestOfMoves(generate_3opt_moves(route, i, j, k), dm, 1, best),
              LAMBDA found : ThreeOptK(route, dm, i, j, k + 1, found))

\* for j in range(i + 1, n_nodes - 1)
RECURSIVE ThreeOptJ(_, _, _, _, _)
ThreeOptJ(route, dm, i, j, best) ==
    IF j >= Len(route) - 1 THEN best
    ELSE With(ThreeOptK(route, dm, i, j, j + 1, best),
              LAMBDA found : ThreeOptJ(route, dm, i, j + 1, found))

\* for i in range(1, n_nodes - 2)
RECURSIVE ThreeOptI(_, _, _, _)
ThreeOptI(route, dm, i, best) ==
    IF i >= Len(route) - 2 THEN best
    ELSE With(ThreeOptJ(route, dm, i, i + 1, best),
              LAMBDA found : ThreeOptI(route, dm, i + 1, found))

\* a faulty sweep: only the first triple i, j, k = 1, 2, 3 is tried
ThreeOptFirstTripleOnly(route, dm) ==
    IF Len(route) < 4 THEN route
    ELSE BestOfMoves(generate_3opt_moves(route, 1, 2, 3), dm, 1,
                     [route |-> route, cost |-> calculate_route_cost(route, dm)]).route

\* HybridQuantumOptimizer.three_opt_improvement
three_opt_improvement(route, dm) ==
    ThreeOptI(route, dm, 1,
              [route |-> route, cost |-> calculate_route_cost(route, dm)]).route

(* --------------------------- random helpers ---------------------------- *)
\* x[i], x[j] = x[j], x[i]
Swap(x, i, j) == [x EXCEPT ![i + 1] = x[j + 1], ![j + 1] = x[i + 1]]

\* np.random.shuffle(x): for i = len-1 down to 1, swap x[i] with x[randint(0, i+1)]
RECURSIVE ShuffleLoop(_, _, _)
ShuffleLoop(x, i, r) ==
    IF i < 1 THEN [list |-> x, rng |-> r]
    ELSE ShuffleLoop(Swap(x, i, RandInt(r, 0, i + 1)), i - 1, NextRng(r))

np_random_shuffle(x, r) == ShuffleLoop(x, Len(x) - 1, r)

\* route = list(range(n)); if start_index != 0: route.remove(start_index);
\* route = [start_index] + route
InitialRoute(n, start) ==
    IF start # 0
    THEN <<start>> \o SelectSeq(Range(n), LAMBDA x : x # start)
    ELSE Range(n)

\* np.random.shuffle(route[1:]) shuffles the slice, a copy: the generator
\* advances and route keeps its order
ShuffledInitialRoute(n, start, r) ==
    [route |-> InitialRoute(n, start),
     rng |-> np_random_shuffle(Tail(InitialRoute(n, start)), r).rng]

(* --------------------------- enhanced 2-opt ---------------------------- *)
NoRoute == <<>>

\* the initial solution of one restart
RestartSeed(dm, n, start, restart, r) ==
    IF restart = 0
    THEN [route |-> nearest_neighbor_heuristic(dm, n, start), rng |-> r]
    ELSE ShuffledInitialRoute(n, start, r)

\* a faulty size test: 3-opt already from five nodes
RunsThreeOptFromFive(route) == Len(route) >= ThreeOptMinNodes - 1

\* if len(route) >= 6
RunsThreeOpt(route) == Len(route) >= ThreeOptMinNodes

\* 2-opt, then 3-opt when len(route) >= 6
LocalSearch(route, dm) ==
    With(two_opt_improvement(route, dm), LAMBDA improved :
        IF RunsThreeOpt(improved)
        THEN three_opt_improvement(improved, dm)
        ELSE improved)

\* the functions a call of enhanced_two_opt_optimization enters when its
\* first restart does not raise
CalledByEnhanced(n, start) ==
    {"enhanced_two_opt_optimization", "nearest_neighbor_heuristic",
     "two_opt_improvement"}
    \cup IF RunsThreeOpt(InitialRoute(n, start)) THEN {"three_opt_improvement"} ELSE {}

\* for restart in range(3)
RECURSIVE EnhancedRestarts(_, _, _, _, _, _)
EnhancedRestarts(dm, n, start, restart, best, r) ==
    IF restart >= Restarts THEN [route |-> best.route, rng |-> r]
    ELSE With(RestartSeed(dm, n, start, restart, r), LAMBDA seed :
         With(LocalSearch(seed.route, dm), LAMBDA route :
             EnhancedRestarts(dm, n, start, restart + 1,
                              KeepLower(best, route, calculate_route_cost(route, dm)),
                              seed.rng)))

\* HybridQuantumOptimizer.enhanced_two_opt_optimization (when it does not raise:
\* restart 0 starts with nearest_neighbor_heuristic)
enhanced_two_opt_optimization(dm, n, start, r) ==
    EnhancedRestarts(dm, n, start, 0, [route |-> NoRoute, cost |-> Inf], r)

(* ------------------------- simulated annealing ------------------------- *)
\* HybridQuantumOptimizer.two_opt_swap: i = randint(1, n - 1), j = randint(i + 1, n)
two_opt_swap(route, r) ==
    IF Len(route) < TwoOptSwapMinNodes THEN [route |-> route, rng |-> r]
    ELSE With(RandInt(r, 1, Len(route) - 1), LAMBDA i :
             [route |-> ReverseSlice(route, i,
                                     RandInt(NextRng(r), i + 1, Len(route))),
              rng |-> NextRng(NextRng(r))])

\* np.random.random() < np.exp(-(new_cost - current_cost) / temperature) for
\* new_cost >= current_cost, read from state r.  exp(-x) is taken as 1/(1+x):
\* 1 at x = 0, strictly decreasing and inside (0,1) for x > 0.
\* temperature is in thousandths.
AcceptWorse(r, new_cost, current_cost, temperature) ==
    r * (temperature + 1000 * (new_cost - current_cost)) < RngMod * temperature

\* the locals simulated_annealing_optimization enters its loop with
SaEnter(current_route, current_cost) ==
    [current_route |-> current_route, current_cost |-> current_cost,
     best_route |-> current_route, best_cost |-> current_cost,
     temperature |-> InitialTempMilli, iteration |-> 0, broke |-> FALSE]

SaStart(dm, n, start) ==
    With(nearest_neighbor_heuristic(dm, n, start), LAMBDA current_route :
        SaEnter(current_route, calculate_route_cost(current_route, dm)))

\* temperature *= cooling_rate; if temperature < final_temp: break
SaCool(s) ==
    [s EXCEPT !.temperature = (s.temperature * CoolingRateMilli) \div 1000,
              !.iteration = s.iteration + 1,
              !.broke = (s.temperature * CoolingRateMilli) \div 1000 < FinalTempMilli]

\* a faulty acceptance: the best-seen route is overwritten by every accepted one
SaAcceptOverwritesBest(s, new_route, new_cost) ==
    [s EXCEPT !.current_route = new_route,
              !.current_cost = new_cost,
              !.best_route = new_route,
              !.best_cost = new_cost]

\* current = new; if new_cost < best_cost: best = new
SaAccept(s, new_route, new_cost) ==
    [s EXCEPT !.current_route = new_route,
              !.current_cost = new_cost,
              !.best_route = IF new_cost < s.best_cost THEN new_route ELSE @,
              !.best_cost = IF new_cost < s.best_cost THEN new_cost ELSE @]

\* the acceptance test: the generator is read only when new_cost < current_cost fails
SaDecide(s, new_route, new_cost, r) ==
    IF new_cost < s.current_cost
    THEN [sa |-> SaCool(SaAccept(s, new_route, new_cost)), rng |-> r]
    ELSE IF AcceptWorse(r, new_cost, s.current_cost, s.temperature)
    THEN [sa |-> SaCool(SaAccept(s, new_route, new_cost)), rng |-> NextRng(r)]
    ELSE [sa |-> SaCool(s), rng |-> NextRng(r)]

\* one pass of the body of the for loop of simulated_annealing_optimization
SaIteration(s, dm, r) ==
    With(two_opt_swap(s.current_route, r), LAMBDA swapped :
        SaDecide(s, swapped.route, calculate_route_cost(swapped.route, dm),
                 swapped.rng))

(* -------------------------- genetic algorithm -------------------------- *)
\* the first position of seq whose cost is minimal: min(seq, key=cost), and
\* np.argmax of the fitness 1/(cost + 1e-6), which falls as the cost rises
FirstMinIndex(costs) ==
    CHOOSE k \in 1 .. Len(costs) :
        /\ \A m \in 1 .. Len(costs) : costs[k] <= costs[m]
        /\ \A m \in 1 .. (k - 1) : costs[m] > costs[k]

CostsOf(routes, dm) == [k \in 1 .. Len(routes) |-> calculate_route_cost(routes[k], dm)]

\* the population genetic_algorithm_optimization starts its generations with
RECURSIVE GaInitialPopulation(_, _, _, _)
GaInitialPopulation(n, start, population, r) ==
    IF Len(population) >= PopulationSize
    THEN [population |-> population, rng |-> r]
    ELSE With(ShuffledInitialRoute(n, start, r), LAMBDA made :
             GaInitialPopulation(n, start, Append(population, made.route), made.rng))

\* tournament_indices[np.argmax(tournament_fitness)]
TournamentWinner(tournament_indices, costs) ==
    tournament_indices[FirstMinIndex([k \in 1 .. Len(tournament_indices) |->
                                         costs[tournament_indices[k] + 1]])]

\* HybridQuantumOptimizer.tournament_selection: np.random.choice(len, size,
\* replace=False) is the head of a shuffled arange(len)
tournament_selection(population, costs, r) ==
    With(np_random_shuffle(Range(Len(population)), r), LAMBDA shuffled :
        [route |-> population[TournamentWinner(SubSeq(shuffled.list, 1, TournamentSize),
                                               costs) + 1],
         rng |-> shuffled.rng])

\* child = [-1] * n; child[0] = start_index; child[start:end] = parent1[start:end]
CrossoverCopy(parent1, start_index, start, end) ==
    [k \in 1 .. Len(parent1) |->
        IF k = 1 THEN start_index
        ELSE IF start + 1 <= k /\ k <= end THEN parent1[k]
        ELSE -1]

\* for i in range(1, n): if child[i] == -1: child[i] = remaining[j]; j += 1
CrossoverFill(child, remaining) ==
    [k \in 1 .. Len(child) |->
        IF k >= 2 /\ child[k] = -1
        THEN remaining[Cardinality({m \in 2 .. k : child[m] = -1})]
        ELSE child[k]]

\* a faulty fill: remaining = list(parent2), without the "not in child" filter
CrossoverChildUnfiltered(child, parent2) == CrossoverFill(child, parent2)

\* remaining = [x for x in parent2 if x not in child]
CrossoverChild(child, parent2) ==
    CrossoverFill(child, SelectSeq(parent2, LAMBDA x : ~InRoute(x, child)))

\* HybridQuantumOptimizer.order_crossover
order_crossover(parent1, parent2, start_index, r) ==
    With(RandInt(r, 1, Len(parent1) - 1), LAMBDA start :
    With(CrossoverCopy(parent1, start_index, start,
                       RandInt(NextRng(r), start + 1, Len(parent1))), LAMBDA child :
        [route |-> CrossoverChild(child, parent2), rng |-> NextRng(NextRng(r))]))

\* a faulty mutation: i = randint(0, n), j = randint(0, n)
MutateRouteFromZero(route, r) ==
    IF Len(route) > MutateMinNodes
    THEN [route |-> Swap(route, RandInt(r, 0, Len(route)),
                         RandInt(NextRng(r), 0, Len(route))),
          rng |-> NextRng(NextRng(r))]
    ELSE [route |-> route, rng |-> r]

\* HybridQuantumOptimizer.mutate_route: i = randint(1, n), j = randint(1, n)
mutate_route(route, r) ==
    IF Len(route) > MutateMinNodes
    THEN [route |-> Swap(route, RandInt(r, 1, Len(route)),
                         RandInt(NextRng(r), 1, Len(route))),
          rng |-> NextRng(NextRng(r))]
    ELSE [route |-> route, rng |-> r]

\* if np.random.random() < 0.1: child = mutate_route(child)
GaMutation(child, r) ==
    IF RandomBelow(r, MutationRatePercent, 100)
    THEN mutate_route(child, NextRng(r))
    ELSE [route |-> child, rng |-> NextRng(r)]

\* one pass of the loop that fills new_population
GaChild(population, costs, start_index, r) ==
    With(tournament_selection(population, costs, r), LAMBDA parent1 :
    With(tournament_selection(population, costs, parent1.rng), LAMBDA parent2 :
    With(order_crossover(parent1.route, parent2.route, start_index, parent2.rng),
         LAMBDA child : GaMutation(child.route, child.rng))))

RECURSIVE GaNewPopulation(_, _, _, _, _)
GaNewPopulation(population, costs, start_index, new_population, r) ==
    IF Len(new_population) >= PopulationSize
    THEN [population |-> new_population, rng |-> r]
    ELSE With(GaChild(population, costs, start_index, r), LAMBDA made :
             GaNewPopulation(population, costs, start_index,
                             Append(new_population, made.route), made.rng))

\* one generation: evaluate the fitness, breed population_size children
GaGeneration(population, dm, start_index, r) ==
    With(CostsOf(population, dm), LAMBDA costs :
        GaNewPopulation(population, costs, start_index, <<>>, r))

\* a faulty return: population[-1]
GaLast(population, dm) == population[Len(population)]

\* min(population, key=cost)
GaBest(population, dm) == population[FirstMinIndex(CostsOf(population, dm))]

(* ----------------------------- ant colony ------------------------------ *)
\* list(remaining)[idx]: a set of small integers lists in ascending order
NthOf(remaining, idx) ==
    CHOOSE x \in remaining : Cardinality({y \in remaining : y < x}) = idx

\* HybridQuantumOptimizer.construct_ant_route.  The pheromone matrix holds
\* positive floats; inf_edges is the set of its entries that are inf.  With
\* finite entries every remaining node has a positive probability and the
\* generator picks one; with an inf entry among the candidates the
\* normalised probabilities contain nan and np.random.choice raises.
RECURSIVE AntLoop(_, _, _, _, _)
AntLoop(inf_edges, route, remaining, current, r) ==
    IF remaining = {} THEN [raised |-> FALSE, route |-> route, rng |-> r]
    ELSE IF \E x \in remaining : <<current, x>> \in inf_edges
    THEN [raised |-> TRUE, route |-> route, rng |-> r]
    ELSE With(NthOf(remaining, RandInt(r, 0, Cardinality(remaining))),
              LAMBDA next_node :
                  AntLoop(inf_edges, Append(route, next_node),
                          remaining \ {next_node}, next_node, NextRng(r)))

construct_ant_route(n, start, inf_edges, r) ==
    AntLoop(inf_edges, <<start>>, Nodes(n) \ {start}, start, r)

EdgesOf(route) == {<<route[k], route[k + 1]>> : k \in 1 .. (Len(route) - 1)}

\* pheromone *= (1 - rho), then pheromone[a][b] += Q / cost along every ant's
\* route: Q / cost is inf for a float64 cost of 0.0
AcoDeposit(inf_edges, routes, dm) ==
    inf_edges \cup
    UNION {EdgesOf(routes[k]) :
              k \in {m \in 1 .. Len(routes) : calculate_route_cost(routes[m], dm) = 0}}

\* a faulty loop: the last ant of an iteration starts the same iteration again
AcoAfterAntSameIteration(a, route, cost, dm) ==
    [inf_edges |-> a.inf_edges,
     best_route |-> IF cost < a.best_cost THEN route ELSE a.best_route,
     best_cost |-> IF cost < a.best_cost THEN cost ELSE a.best_cost,
     iteration |-> a.iteration, ant |-> (a.ant + 1) % NAnts, routes |-> <<>>]

\* a faulty tracking: best_cost = cost; best_route = route.copy() for every ant
AcoAfterAntKeepsLatest(a, route, cost, dm) ==
    IF a.ant + 1 >= NAnts
    THEN [inf_edges |-> AcoDeposit(a.inf_edges, Append(a.routes, route), dm),
          best_route |-> route, best_cost |-> cost,
          iteration |-> a.iteration + 1, ant |-> 0, routes |-> <<>>]
    ELSE [inf_edges |-> a.inf_edges,
          best_route |-> route, best_cost |-> cost,
          iteration |-> a.iteration, ant |-> a.ant + 1,
          routes |-> Append(a.routes, route)]

\* the locals of ant_colony_optimization after one ant that returned route;
\* the last ant of an iteration is followed by the pheromone update
AcoAfterAnt(a, route, cost, dm) ==
    IF a.ant + 1 >= NAnts
    THEN [inf_edges |-> AcoDeposit(a.inf_edges, Append(a.routes, route), dm),
          best_route |-> IF cost < a.best_cost THEN route ELSE a.best_route,
          best_cost |-> IF cost < a.best_cost THEN cost ELSE a.best_cost,
          iteration |-> a.iteration + 1, ant |-> 0, routes |-> <<>>]
    ELSE [inf_edges |-> a.inf_edges,
          best_route |-> IF cost < a.best_cost THEN route ELSE a.best_route,
          best_cost |-> IF cost < a.best_cost THEN cost ELSE a.best_cost,
          iteration |-> a.iteration, ant |-> a.ant + 1,
          routes |-> Append(a.routes, route)]

(* ------------------------- candidate generator ------------------------- *)
Min(a, b) == IF a < b THEN a ELSE b

\* n_qubits = min(n_nodes * 2, 20)
NumQubits(n) == Min(n * 2, MaxQubits)

\* int(bitstring, 2): a bitstring is the sequence of its bits
RECURSIVE BitstringValue(_, _, _)
BitstringValue(bitstring, k, acc) ==
    IF k > Len(bitstring) THEN acc
    ELSE BitstringValue(bitstring, k + 1, 2 * acc + bitstring[k])

\* np.random.seed(int(bitstring, 2) % 10000)
BitstringSeed(bitstring) == SeedRng(BitstringValue(bitstring, 1, 0) % SeedMod)

\* base_dist + 0.1 * base_dist * (+1 or -1), in tenths
BiasedDistance(dm, bitstring, n, current, node) ==
    dm[current][node]
    * (IF bitstring[((current * n + node) % Len(bitstring)) + 1] = 1 THEN 11 ELSE 9)

\* distances.sort(); next_node = distances[0][1]
FirstSorted(distances) ==
    (CHOOSE d \in distances : \A e \in distances :
         d[1] < e[1] \/ (d[1] = e[1] /\ d[2] <= e[2]))[2]

RECURSIVE GreedyLoop(_, _, _, _, _, _)
GreedyLoop(dm, bitstring, n, route, remaining, current) ==
    IF remaining = {} THEN route
    ELSE With(FirstSorted({<<BiasedDistance(dm, bitstring, n, current, node), node>> :
                              node \in remaining}),
              LAMBDA next_node :
                  GreedyLoop(dm, bitstring, n, Append(route, next_node),
                             remaining \ {next_node}, next_node))

\* HybridQuantumOptimizer.bitstring_to_route_greedy: seeds the generator, then
\* remaining.remove(start_index) raises when start_index is no node
bitstring_to_route_greedy(bitstring, n, start, dm) ==
    IF start \notin Nodes(n)
    THEN [raised |-> TRUE, route |-> NoRoute, rng |-> BitstringSeed(bitstring)]
    ELSE [raised |-> FALSE,
          route |-> GreedyLoop(dm, bitstring, n, <<start>>, Nodes(n) \ {start}, start),
          rng |-> BitstringSeed(bitstring)]

\* max(distances)
MaxDistance(dm, current, remaining) ==
    CHOOSE d \in {dm[current][x] : x \in remaining} :
        \A x \in remaining : dm[current][x] <= d

\* the sum of the weights max_dist - dist + 0.1 (in tenths) of the remaining
\* nodes up to node x
RECURSIVE CumulativeWeight(_, _, _, _, _)
CumulativeWeight(dm, current, max_dist, remaining, x) ==
    IF x < 0 THEN 0
    ELSE (IF x \in remaining THEN 10 * (max_dist - dm[current][x]) + 1 ELSE 0)
         + CumulativeWeight(dm, current, max_dist, remaining, x - 1)

\* np.random.choice(len(remaining), p=probabilities): the number of cumulative
\* probabilities at or below the uniform variate
ProbabilisticPick(dm, n, remaining, current, r) ==
    With(MaxDistance(dm, current, remaining), LAMBDA max_dist :
    With(CumulativeWeight(dm, current, max_dist, remaining, n - 1), LAMBDA total_prob :
        NthOf(remaining,
              Cardinality({x \in remaining :
                              CumulativeWeight(dm, current, max_dist, remaining, x)
                              * RngMod <= r * total_prob}))))

RECURSIVE ProbabilisticLoop(_, _, _, _, _, _)
ProbabilisticLoop(dm, n, route, remaining, current, r) ==
    IF remaining = {} THEN [raised |-> FALSE, route |-> route, rng |-> r]
    ELSE With(ProbabilisticPick(dm, n, remaining, current, r), LAMBDA next_node :
             ProbabilisticLoop(dm, n, Append(route, next_node),
                               remaining \ {next_node}, next_node, NextRng(r)))

\* HybridQuantumOptimizer.bitstring_to_route_probabilistic
bitstring_to_route_probabilistic(bitstring, n, start, dm) ==
    IF start \notin Nodes(n)
    THEN [raised |-> TRUE, route |-> NoRoute, rng |-> BitstringSeed(bitstring)]
    ELSE ProbabilisticLoop(dm, n, <<start>>, Nodes(n) \ {start}, start,
                           BitstringSeed(bitstring))

\* HybridQuantumOptimizer.bitstring_to_route_nearest_neighbor
bitstring_to_route_nearest_neighbor(n, start, dm) ==
    IF NearestNeighborRaises(n, start)
    THEN [raised |-> TRUE, route |-> NoRoute]
    ELSE [raised |-> FALSE, route |-> nearest_neighbor_heuristic(dm, n, start)]

\* try: route = strategy(...); keep it when its cost is strictly lower
\* except: continue
KeepStrategy(best, made, dm) ==
    IF made.raised THEN best
    ELSE KeepLower(best, made.route, calculate_route_cost(made.route, dm))

\* the three strategies of advanced_decode_solution on one bitstring; the two
\* seeded strategies leave the generator where the second one stopped
DecodeBitstring(bitstring, n, start, dm, best) ==
    With(bitstring_to_route_greedy(bitstring, n, start, dm), LAMBDA greedy :
    With(bitstring_to_route_probabilistic(bitstring, n, start, dm),
         LAMBDA probabilistic :
    With(bitstring_to_route_nearest_neighbor(n, start, dm), LAMBDA nearest :
        [best |-> KeepStrategy(KeepStrategy(KeepStrategy(best, greedy, dm),
                                            probabilistic, dm),
                               nearest, dm),
         rng |-> probabilistic.rng])))

\* for bitstring, count in top_results
RECURSIVE DecodeTop(_, _, _, _, _, _, _)
DecodeTop(top_results, k, n, start, dm, best, r) ==
    IF k > Len(top_results) THEN [best |-> best, rng |-> r]
    ELSE With(DecodeBitstring(top_results[k], n, start, dm, best), LAMBDA done :
             DecodeTop(top_results, k + 1, n, start, dm, done.best, done.rng))

\* return best_route if best_route else list(range(n_nodes))
DecodedRoute(done, n) ==
    [route |-> IF done.best.route # NoRoute THEN done.best.route ELSE Range(n),
     rng |-> done.rng]

\* HybridQuantumOptimizer.advanced_decode_solution: top_results is the list
\* of measured bitstrings by falling count
advanced_decode_solution(top_results, n, start, dm, r) ==
    DecodedRoute(DecodeTop(top_results, 1, n, start, dm,
                           [route |-> NoRoute, cost |-> Inf], r), n)

\* for _ in range(5): decode, keep the route when its cost is strictly lower
RECURSIVE DecodeAttemptsLoop(_, _, _, _, _, _, _)
DecodeAttemptsLoop(attempt, top_results, n, start, dm, best, r) ==
    IF attempt >= DecodeAttempts THEN [best |-> best, rng |-> r]
    ELSE With(advanced_decode_solution(top_results, n, start, dm, r),
              LAMBDA decoded :
                  DecodeAttemptsLoop(attempt + 1, top_results, n, start, dm,
                                     KeepLower(best, decoded.route,
                                               calculate_route_cost(decoded.route, dm)),
                                     decoded.rng))

\* the measured bitstrings the model draws from: all zeros, and the strings
\* with a one at every p-th position
Patterns(q) ==
    {[k \in 1 .. q |-> IF p > 0 /\ (k - 1) % p = 0 THEN 1 ELSE 0] : p \in 0 .. MaxPattern}

\* counts_dict of one sampler run, as its bitstrings by falling count
SamplerCounts(q) ==
    {<<a>> : a \in Patterns(q)}
    \cup {pair \in Patterns(q) \X Patterns(q) : pair[1] # pair[2]}

(* ------------------------------ instances ------------------------------ *)
\* a family of symmetric matrices with zero diagonal and entries in
\* 0 .. 250 * MaxDist; shape 0 is the matrix of stops that all coincide
Dist(shape, i, j) ==
    IF i = j THEN 0
    ELSE 250 * ((shape * (Min(i, j) * Min(i, j) + i + j + i * j + 1)) % (MaxDist + 1))

\* the same family without the symmetry: entry (i, j) is read off (i, j) as given
SkewDist(shape, i, j) ==
    IF i = j THEN 0
    ELSE 250 * ((shape * (i * i + j + i * j + 1)) % (MaxDist + 1))

Matrix(n, shape) == [i \in Nodes(n) |-> [j \in Nodes(n) |-> Dist(shape, i, j)]]

SkewMatrix(n, shape) == [i \in Nodes(n) |-> [j \in Nodes(n) |-> SkewDist(shape, i, j)]]

IsSymmetric(dm, count) == \A i \in Nodes(count), j \in Nodes(count) : dm[i][j] = dm[j][i]

\* the ProblemInstance invariant: n >= 1, symmetric, non-negative, start in range
ValidInstance(dm, count, start) ==
    /\ count >= 1
    /\ IsSymmetric(dm, count)
    /\ \A i \in Nodes(count), j \in Nodes(count) : dm[i][j] >= 0
    /\ start \in Nodes(count)

(* ------------------------------- state --------------------------------- *)
VARIABLES
    n,                \* len(distance_matrix)
    distance_matrix,  \* the matrix handed to optimize_route
    start_index,      \* the start index handed to optimize_route
    rng,              \* the state of np.random
    pc,               \* the position of optimize_route
    algorithms,       \* the list of (name, route) of the coordinator
    qaoa,             \* locals of quantum_qaoa_optimization
    sa,               \* locals of simulated_annealing_optimization
    ga,               \* locals of genetic_algorithm_optimization
    aco,              \* locals of ant_colony_optimization
    result,           \* what optimize_route returned
    called,           \* the functions entered so far
    raised            \* the functions that ended by raising

vars == <<n, distance_matrix, start_index, rng, pc, algorithms, qaoa, sa, ga, aco,
          result, called, raised>>

QaoaIdle == [k |-> 0, best_route |-> NoRoute, best_cost |-> Inf]

SaIdle == [current_route |-> NoRoute, current_cost |-> 0,
           best_route |-> NoRoute, best_cost |-> 0,
           temperature |-> InitialTempMilli, iteration |-> 0, broke |-> FALSE]

GaIdle == [population |-> <<>>, generation |-> 0]

AcoIdle == [inf_edges |-> {}, best_route |-> NoRoute, best_cost |-> Inf,
            iteration |-> 0, ant |-> 0, routes |-> <<>>]

NoResult == [returned |-> FALSE, route |-> NoRoute, cost |-> 0, backend |-> "None",
             algorithm |-> "None", all_results |-> <<>>]

InitCommon ==
    /\ rng \in 0 .. (RngMod - 1)
    /\ pc = "optimize_route"
    /\ algorithms = <<>>
    /\ qaoa = QaoaIdle
    /\ sa = SaIdle
    /\ ga = GaIdle
    /\ aco = AcoIdle
    /\ result = NoResult
    /\ called = {}
    /\ raised = {}

\* optimize_route is called on a valid instance
Init ==
    /\ n \in 1 .. MaxN
    /\ \E shape \in 0 .. MaxShape : distance_matrix = Matrix(n, shape)
    /\ start_index \in Nodes(n)
    /\ InitCommon

\* optimize_route is called on any matrix and start index, valid or not
InitAny ==
    /\ n \in 1 .. MaxN
    /\ \E shape \in 0 .. MaxShape :
           distance_matrix \in {Matrix(n, shape), SkewMatrix(n, shape)}
    /\ start_index \in -1 .. n
    /\ InitCommon

(* ------------------------------ actions -------------------------------- *)
\* a faulty gate: the genetic algorithm already from four nodes
AfterSaEarlyGa ==
    IF n >= GaMinNodes - 1 THEN "ga" ELSE IF n >= AcoMinNodes THEN "aco" ELSE "two_opt"

\* the size gates that follow each algorithm in hybrid_quantum_classical_optimization
AfterSa == IF n >= GaMinNodes THEN "ga" ELSE IF n >= AcoMinNodes THEN "aco" ELSE "two_opt"

AfterGa == IF n >= AcoMinNodes THEN "aco" ELSE "two_opt"

\* optimize_route enters hybrid_quantum_classical_optimization
Hybrid ==
    /\ pc = "optimize_route"
    /\ pc' = IF n <= QaoaMaxNodes THEN "qaoa" ELSE "sa"
    /\ algorithms' = <<>>
    /\ called' = called \cup {"hybrid_quantum_classical_optimization"}
    /\ UNCHANGED <<n, distance_matrix, start_index, rng, qaoa, sa, ga, aco, result, raised>>

\* one parameter set of quantum_qaoa_optimization whose circuit or sampler raises
QaoaSamplerFails ==
    /\ pc = "qaoa"
    /\ qaoa.k < ParameterSets
    /\ qaoa' = [qaoa EXCEPT !.k = @ + 1]
    /\ called' = called \cup {"quantum_qaoa_optimization"}
    /\ UNCHANGED <<n, distance_matrix, start_index, rng, pc, algorithms, sa, ga, aco,
                   result, raised>>

\* one parameter set of quantum_qaoa_optimization whose sampler returns counts
QaoaDecode ==
    /\ pc = "qaoa"
    /\ qaoa.k < ParameterSets
    /\ \E top_results \in SamplerCounts(NumQubits(n)) :
          \E done \in {DecodeAttemptsLoop(0, top_results, n, start_index,
                                          distance_matrix,
                                          [route |-> qaoa.best_route,
                                           cost |-> qaoa.best_cost], rng)} :
              /\ qaoa' = [k |-> qaoa.k + 1, best_route |-> done.best.route,
                          best_cost |-> done.best.cost]
              /\ rng' = done.rng
    /\ called' = called \cup {"quantum_qaoa_optimization", "advanced_decode_solution"}
    /\ UNCHANGED <<n, distance_matrix, start_index, pc, algorithms, sa, ga, aco,
                   result, raised>>

\* the end of quantum_qaoa_optimization and the try/except around its call
QaoaReturn ==
    /\ pc = "qaoa"
    /\ qaoa.k >= ParameterSets
    /\ pc' = "sa"
    /\ qaoa' = QaoaIdle
    /\ IF qaoa.best_route # NoRoute
       THEN /\ algorithms' = Append(algorithms,
                                    [name |-> "Quantum QAOA", route |-> qaoa.best_route])
            /\ UNCHANGED <<rng, raised>>
            /\ called' = called \cup {"quantum_qaoa_optimization"}
       ELSE IF NearestNeighborRaises(n, start_index)
               THEN /\ called' = called \cup {"quantum_qaoa_optimization",
                                              "enhanced_two_opt_optimization",
                                              "nearest_neighbor_heuristic"}
                    /\ raised' = raised \cup {"quantum_qaoa_optimization"}
                    /\ UNCHANGED <<rng, algorithms>>
               ELSE \E made \in {enhanced_two_opt_optimization(distance_matrix, n,
                                                                start_index, rng)} :
                        /\ algorithms' = Append(algorithms,
                                                [name |-> "Quantum QAOA",
                                                 route |-> made.route])
                        /\ rng' = made.rng
                        /\ called' = called \cup {"quantum_qaoa_optimization"}
                                             \cup CalledByEnhanced(n, start_index)
                        /\ UNCHANGED raised
    /\ UNCHANGED <<n, distance_matrix, start_index, sa, ga, aco, result>>

\* simulated_annealing_optimization up to its loop
SaBegin ==
    /\ pc = "sa"
    /\ called' = called \cup {"simulated_annealing_optimization",
                              "nearest_neighbor_heuristic"}
    /\ IF NearestNeighborRaises(n, start_index)
       THEN /\ pc' = "except"
            /\ raised' = raised \cup {"simulated_annealing_optimization",
                                      "hybrid_quantum_classical_optimization"}
            /\ UNCHANGED sa
       ELSE /\ pc' = "sa_loop"
            /\ sa' = SaStart(distance_matrix, n, start_index)
            /\ UNCHANGED raised
    /\ UNCHANGED <<n, distance_matrix, start_index, rng, algorithms, qaoa, ga, aco, result>>

\* one iteration of simulated annealing
SaStep ==
    /\ pc = "sa_loop"
    /\ sa.iteration < MaxIterations
    /\ ~sa.broke
    /\ \E done \in {SaIteration(sa, distance_matrix, rng)} :
           /\ sa' = done.sa
           /\ rng' = done.rng
    /\ UNCHANGED <<n, distance_matrix, start_index, pc, algorithms, qaoa, ga, aco,
                   result, called, raised>>

\* return best_route, and the coordinator's append
SaReturn ==
    /\ pc = "sa_loop"
    /\ (sa.iteration >= MaxIterations \/ sa.broke)
    /\ algorithms' = Append(algorithms,
                            [name |-> "Simulated Annealing", route |-> sa.best_route])
    /\ sa' = SaIdle
    /\ pc' = AfterSa
    /\ UNCHANGED <<n, distance_matrix, start_index, rng, qaoa, ga, aco, result,
                   called, raised>>

\* genetic_algorithm_optimization up to its generations
GaBegin ==
    /\ pc = "ga"
    /\ \E made \in {GaInitialPopulation(n, start_index, <<>>, rng)} :
           /\ ga' = [population |-> made.population, generation |-> 0]
           /\ rng' = made.rng
    /\ pc' = "ga_loop"
    /\ called' = called \cup {"genetic_algorithm_optimization"}
    /\ UNCHANGED <<n, distance_matrix, start_index, algorithms, qaoa, sa, aco, result,
                   raised>>

\* one generation
GaStep ==
    /\ pc = "ga_loop"
    /\ ga.generation < Generations
    /\ \E made \in {GaGeneration(ga.population, distance_matrix, start_index, rng)} :
           /\ ga' = [population |-> made.population, generation |-> ga.generation + 1]
           /\ rng' = made.rng
    /\ UNCHANGED <<n, distance_matrix, start_index, pc, algorithms, qaoa, sa, aco,
                   result, called, raised>>

\* return the best of the final population, and the coordinator's append
GaReturn ==
    /\ pc = "ga_loop"
    /\ ga.generation >= Generations
    /\ algorithms' = Append(algorithms,
                            [name |-> "Genetic Algorithm",
                             route |-> GaBest(ga.population, distance_matrix)])
    /\ ga' = GaIdle
    /\ pc' = AfterGa
    /\ UNCHANGED <<n, distance_matrix, start_index, rng, qaoa, sa, aco, result,
                   called, raised>>

\* ant_colony_optimization up to its iterations
AcoBegin ==
    /\ pc = "aco"
    /\ aco' = AcoIdle
    /\ pc' = "aco_loop"
    /\ called' = called \cup {"ant_colony_optimization"}
    /\ UNCHANGED <<n, distance_matrix, start_index, rng, algorithms, qaoa, sa, ga,
                   result, raised>>

\* one ant; the last ant of an iteration is followed by the pheromone update
AcoAnt ==
    /\ pc = "aco_loop"
    /\ aco.iteration < NIterations
    /\ \E made \in {construct_ant_route(n, start_index, aco.inf_edges, rng)} :
           /\ rng' = made.rng
           /\ IF made.raised
              THEN /\ pc' = "except"
                   /\ raised' = raised \cup {"ant_colony_optimization",
                                             "hybrid_quantum_classical_optimization"}
                   /\ UNCHANGED aco
              ELSE /\ aco' = AcoAfterAnt(aco, made.route,
                                         calculate_route_cost(made.route,
                                                              distance_matrix),
                                         distance_matrix)
                   /\ UNCHANGED <<pc, raised>>
    /\ UNCHANGED <<n, distance_matrix, start_index, algorithms, qaoa, sa, ga, result,
                   called>>

\* return best_route, and the coordinator's append
AcoReturn ==
    /\ pc = "aco_loop"
    /\ aco.iteration >= NIterations
    /\ algorithms' = Append(algorithms,
                            [name |-> "Ant Colony", route |-> aco.best_route])
    /\ aco' = AcoIdle
    /\ pc' = "two_opt"
    /\ UNCHANGED <<n, distance_matrix, start_index, rng, qaoa, sa, ga, result,
                   called, raised>>

\* enhanced_two_opt_optimization, and the coordinator's append
EnhancedTwoOpt ==
    /\ pc = "two_opt"
    /\ \E made \in {enhanced_two_opt_optimization(distance_matrix, n, start_index,
                                                    rng)} :
           /\ algorithms' = Append(algorithms,
                                   [name |-> "Enhanced 2-opt", route |-> made.route])
           /\ rng' = made.rng
    /\ pc' = "select"
    /\ called' = called \cup CalledByEnhanced(n, start_index)
    /\ UNCHANGED <<n, distance_matrix, start_index, qaoa, sa, ga, aco, result, raised>>

\* a faulty comparison: if cost > best_cost
KeepHigher(best, name, route, cost) ==
    IF cost > best.cost
    THEN [algorithm |-> name, route |-> route, cost |-> cost]
    ELSE best

\* a faulty comparison: if cost <= best_cost, so that the last of a tie wins
KeepLastTie(best, name, route, cost) ==
    IF cost <= best.cost
    THEN [algorithm |-> name, route |-> route, cost |-> cost]
    ELSE best

\* if cost < best_cost: best_cost = cost; best_route = route; best_algorithm = name
KeepFirst(best, name, route, cost) ==
    IF cost < best.cost
    THEN [algorithm |-> name, route |-> route, cost |-> cost]
    ELSE best

\* for name, route in algorithms
RECURSIVE SelectBest(_, _, _, _)
SelectBest(algs, dm, k, best) ==
    IF k > Len(algs) THEN best
    ELSE SelectBest(algs, dm, k + 1,
                    KeepFirst(best, algs[k].name, algs[k].route,
                              calculate_route_cost(algs[k].route, dm)))

NamesOf(algs) == {algs[k].name : k \in 1 .. Len(algs)}

\* the last entry of algs that carries the name
LastNamed(algs, name) ==
    CHOOSE m \in 1 .. Len(algs) :
        /\ algs[m].name = name
        /\ \A later \in (m + 1) .. Len(algs) : algs[later].name # name

\* a faulty table: built from all entries but the last
AllResultsBeforeLast(algs, dm) ==
    [name \in NamesOf(SubSeq(algs, 1, Len(algs) - 1)) |->
        calculate_route_cost(algs[LastNamed(SubSeq(algs, 1, Len(algs) - 1), name)].route,
                             dm)]

\* {name: cost for name, route in algorithms}: a later entry replaces an earlier
AllResults(algs, dm) ==
    [name \in NamesOf(algs) |->
        calculate_route_cost(algs[LastNamed(algs, name)].route, dm)]

\* a faulty selection: best_cost starts at 0, so that no route is ever kept
SelectFromZero ==
    /\ pc = "select"
    /\ \E best \in {SelectBest(algorithms, distance_matrix, 1,
                               [algorithm |-> "None", route |-> NoRoute,
                                cost |-> 0])} :
           result' = [returned |-> TRUE, route |-> best.route, cost |-> best.cost,
                      backend |-> "Hybrid", algorithm |-> best.algorithm,
                      all_results |-> AllResults(algorithms, distance_matrix)]
    /\ pc' = "done"
    /\ UNCHANGED <<n, distance_matrix, start_index, rng, algorithms, qaoa, sa, ga, aco,
                   called, raised>>

\* the selection of hybrid_quantum_classical_optimization and the return of
\* optimize_route
Select ==
    /\ pc = "select"
    /\ \E best \in {SelectBest(algorithms, distance_matrix, 1,
                               [algorithm |-> "None", route |-> NoRoute,
                                cost |-> Inf])} :
           result' = [returned |-> TRUE, route |-> best.route, cost |-> best.cost,
                      backend |-> "Hybrid", algorithm |-> best.algorithm,
                      all_results |-> AllResults(algorithms, distance_matrix)]
    /\ pc' = "done"
    /\ UNCHANGED <<n, distance_matrix, start_index, rng, algorithms, qaoa, sa, ga, aco,
                   called, raised>>

\* a faulty except branch: the failure of the ensemble is raised again
FallbackRaises ==
    /\ pc = "except"
    /\ pc' = "raised"
    /\ raised' = raised \cup {"optimize_route"}
    /\ UNCHANGED <<n, distance_matrix, start_index, rng, algorithms, qaoa, sa, ga, aco,
                   result, called>>

\* the except branch of optimize_route
Fallback ==
    /\ pc = "except"
    /\ called' = called \cup {"nearest_neighbor_heuristic"}
    /\ IF NearestNeighborRaises(n, start_index)
       THEN /\ pc' = "raised"
            /\ raised' = raised \cup {"optimize_route"}
            /\ UNCHANGED result
       ELSE \E route \in {nearest_neighbor_heuristic(distance_matrix, n, start_index)} :
                /\ result' = [returned |-> TRUE, route |-> route,
                              cost |-> calculate_route_cost(route, distance_matrix),
                              backend |-> "Classical Fallback", algorithm |-> "None",
                              all_results |-> <<>>]
                /\ pc' = "done"
                /\ UNCHANGED raised
    /\ UNCHANGED <<n, distance_matrix, start_index, rng, algorithms, qaoa, sa, ga, aco>>

Next ==
    \/ Hybrid
    \/ QaoaSamplerFails
    \/ QaoaDecode
    \/ QaoaReturn
    \/ SaBegin
    \/ SaStep
    \/ SaReturn
    \/ GaBegin
    \/ GaStep
    \/ GaReturn
    \/ AcoBegin
    \/ AcoAnt
    \/ AcoReturn
    \/ EnhancedTwoOpt
    \/ Select
    \/ Fallback

Spec == Init /\ [][Next]_vars

SpecAny == InitAny /\ [][Next]_vars

(* ------------------- the cost functions on their own ------------------- *)
\* every sequence of at most MaxLen nodes: permutations, repeated nodes, the
\* empty route and the single node
Routes(count) == UNION {[1 .. len -> Nodes(count)] : len \in 0 .. MaxLen}

\* a route and a matrix are handed to the three calculate_route_cost
InitCost ==
    /\ n \in 1 .. MaxLen
    /\ \E shape \in 0 .. MaxShape :
           distance_matrix \in {Matrix(n, shape), SkewMatrix(n, shape)}
    /\ start_index = 0
    /\ rng = 0
    /\ pc = "calculate_route_cost"
    /\ algorithms = <<>>
    /\ qaoa = QaoaIdle
    /\ sa = SaIdle
    /\ ga = GaIdle
    /\ aco = AcoIdle
    /\ \E route \in Routes(n) : result = [NoResult EXCEPT !.route = route]
    /\ called = {}
    /\ raised = {}

\* the three implementations are applied to the route: cost is the hybrid
\* optimizer's value, all_results holds the values of the other two classes
CalculateRouteCost ==
    /\ pc = "calculate_route_cost"
    /\ pc' = "costed"
    /\ result' = [result EXCEPT
                     !.returned = TRUE,
                     !.cost = calculate_route_cost(result.route, distance_matrix),
                     !.all_results =
                         [name \in {"ClassicalOptimizer", "QuantumLayer"} |->
                             IF name = "ClassicalOptimizer"
                             THEN classical_calculate_route_cost(result.route,
                                                                 distance_matrix)
                             ELSE layer_calculate_route_cost(result.route,
                                                             distance_matrix)]]
    /\ UNCHANGED <<n, distance_matrix, start_index, rng, algorithms, qaoa, sa, ga, aco,
                   called, raised>>

NextCost == CalculateRouteCost

SpecCost == InitCost /\ [][NextCost]_vars

(* ---------------------------- properties ------------------------------- *)
\* the open-path cost, stated on its own: the weights of the consecutive pairs
RECURSIVE OpenPathCost(_, _)
OpenPathCost(route, dm) ==
    IF Len(route) < 2 THEN 0
    ELSE dm[route[1]][route[2]] + OpenPathCost(Tail(route), dm)

\* a permutation of 0..n-1 whose first element is the start index
ValidRoute(route) ==
    /\ IsPermutation(route, n)
    /\ \A x \in Nodes(n) : Cardinality({k \in 1 .. Len(route) : route[k] = x}) = 1
    /\ route[1] = start_index

Completed == result.returned /\ result.backend = "Hybrid"

FellBack == result.returned /\ result.backend = "Classical Fallback"

NearestNeighbourCost ==
    OpenPathCost(nearest_neighbor_heuristic(distance_matrix, n, start_index),
                 distance_matrix)

\* the report names of the three size-gated algorithms
GatedNames == {"Quantum QAOA", "Genetic Algorithm", "Ant Colony"}

\* the functions behind the five entries of the coordinator's list
AlgorithmFunctions ==
    {"quantum_qaoa_optimization", "simulated_annealing_optimization",
     "genetic_algorithm_optimization", "ant_colony_optimization",
     "enhanced_two_opt_optimization"}

\* the report name of each function of the coordinator's list
NameOfFunction(function) ==
    CASE function = "quantum_qaoa_optimization" -> "Quantum QAOA"
      [] function = "simulated_annealing_optimization" -> "Simulated Annealing"
      [] function = "genetic_algorithm_optimization" -> "Genetic Algorithm"
      [] function = "ant_colony_optimization" -> "Ant Colony"
      [] function = "enhanced_two_opt_optimization" -> "Enhanced 2-opt"

\* the names of the algorithms that were entered
NamesRun == {NameOfFunction(function) : function \in called \cap AlgorithmFunctions}

\* the report entries whose cost is the winner's
TiedAtMinimum ==
    {name \in DOMAIN result.all_results : result.all_results[name] = result.cost}

\* C1: on a valid instance every route handed to the coordinator, and the
\* route optimize_route returns, is a permutation of 0..n-1 (each index
\* exactly once) whose first element is the start index.
C1_RoutesArePermutationsFromStart ==
    /\ \A k \in 1 .. Len(algorithms) : ValidRoute(algorithms[k].route)
    /\ result.returned => ValidRoute(result.route)

\* all five algorithms have handed over a route, one of them reordered
C1_Witness ==
    /\ pc = "select"
    /\ Cardinality(NamesOf(algorithms)) = 5
    /\ \E k \in 1 .. Len(algorithms) :
           /\ algorithms[k].name = "Genetic Algorithm"
           /\ algorithms[k].route # InitialRoute(n, start_index)

\* C2: on a valid instance the cost optimize_route returns is at most the
\* open-path cost of the nearest-neighbour route from the start index,
\* whatever the random generator and the sampler do.
C2_WinnerNotAboveNearestNeighbour ==
    result.returned => result.cost <= NearestNeighbourCost

\* the ensemble completed and beat nearest neighbour
C2_Witness == Completed /\ result.cost < NearestNeighbourCost

\* C3: the reported cost is the open-path cost of the reported route, is the
\* table entry of the reported algorithm, is at most every table entry, and
\* the table holds exactly the algorithms that were run.
C3_WinnerIsTableMinimum ==
    Completed =>
        /\ result.cost = OpenPathCost(result.route, distance_matrix)
        /\ result.algorithm \in DOMAIN result.all_results
        /\ result.all_results[result.algorithm] = result.cost
        /\ \A name \in DOMAIN result.all_results :
               result.cost <= result.all_results[name]
        /\ DOMAIN result.all_results = NamesRun

\* five entries, one of them strictly worse than the winner
C3_Witness ==
    /\ Completed
    /\ Cardinality(DOMAIN result.all_results) = 5
    /\ \E name \in DOMAIN result.all_results : result.all_results[name] > result.cost

\* the position of a report name in the priority order NearestNeighbor, TwoOpt,
\* ThreeOpt, SimulatedAnnealing, GeneticAlgorithm, AntColony,
\* QuantumInspiredCandidate
PriorityOrder(name) ==
    CASE name = "Enhanced 2-opt" -> 2
      [] name = "Simulated Annealing" -> 4
      [] name = "Genetic Algorithm" -> 5
      [] name = "Ant Colony" -> 6
      [] name = "Quantum QAOA" -> 7

\* the position of a report name in the order the coordinator runs them
RunOrder(name) ==
    CASE name = "Quantum QAOA" -> 1
      [] name = "Simulated Annealing" -> 2
      [] name = "Genetic Algorithm" -> 3
      [] name = "Ant Colony" -> 4
      [] name = "Enhanced 2-opt" -> 5

\* C4 as stated: among the algorithms tied on the minimum cost the winner is
\* the first in the priority order NearestNeighbor, TwoOpt, ThreeOpt,
\* SimulatedAnnealing, GeneticAlgorithm, AntColony, QuantumInspiredCandidate.
C4_TieGoesToPriorityOrder ==
    Completed =>
        \A name \in TiedAtMinimum :
            PriorityOrder(result.algorithm) <= PriorityOrder(name)

\* C4: among the algorithms tied on the minimum cost the winner is the one
\* the coordinator ran first: Quantum QAOA, Simulated Annealing, Genetic
\* Algorithm, Ant Colony, Enhanced 2-opt.
C4_TieGoesToRunOrder ==
    Completed =>
        /\ result.algorithm \in TiedAtMinimum
        /\ \A name \in TiedAtMinimum : RunOrder(result.algorithm) <= RunOrder(name)

\* a tie between simulated annealing and enhanced 2-opt, without a QAOA entry
C4_Witness ==
    /\ Completed
    /\ result.algorithm = "Simulated Annealing"
    /\ "Enhanced 2-opt" \in TiedAtMinimum

\* C5: the QAOA entry is made and its function entered only if n <= 8, the
\* genetic algorithm only if n >= 5, the ant colony only if n >= 4.
C5_SizeGates ==
    /\ ("Quantum QAOA" \in NamesOf(algorithms) \cup DOMAIN result.all_results
           \/ "quantum_qaoa_optimization" \in called
           \/ "advanced_decode_solution" \in called) => n <= 8
    /\ ("Genetic Algorithm" \in NamesOf(algorithms) \cup DOMAIN result.all_results
           \/ "genetic_algorithm_optimization" \in called) => n >= 5
    /\ ("Ant Colony" \in NamesOf(algorithms) \cup DOMAIN result.all_results
           \/ "ant_colony_optimization" \in called) => n >= 4

\* nine nodes: the report has the genetic algorithm and the ant colony but no
\* QAOA entry
C5_Witness ==
    /\ Completed
    /\ n = 9
    /\ DOMAIN result.all_results =
           {"Simulated Annealing", "Genetic Algorithm", "Ant Colony", "Enhanced 2-opt"}

C7_FailureLeavesOthersInReport ==
    (raised \cap AlgorithmFunctions # {}) =>
        /\ "hybrid_quantum_classical_optimization" \notin raised
        /\ result.returned =>
               /\ Completed
               /\ NamesOf(algorithms) \subseteq DOMAIN result.all_results
               /\ result.cost <= NearestNeighbourCost

\* C8: on a valid instance optimize_route never raises; when the ensemble
\* has failed it returns the nearest-neighbour route from the start index
\* with that route's open-path cost, and that route is a permutation of
\* 0..n-1 starting at the start index.
C8_FallbackIsNearestNeighbour ==
    /\ pc # "raised"
    /\ "optimize_route" \notin raised
    /\ ValidRoute(nearest_neighbor_heuristic(distance_matrix, n, start_index))
    /\ ("hybrid_quantum_classical_optimization" \in raised /\ pc = "done") =>
           /\ FellBack
           /\ result.route =
                  nearest_neighbor_heuristic(distance_matrix, n, start_index)
           /\ result.cost = OpenPathCost(result.route, distance_matrix)
    /\ FellBack => "hybrid_quantum_classical_optimization" \in raised

\* the ensemble failed after one algorithm had handed over its route
C8_Witness ==
    /\ FellBack
    /\ "ant_colony_optimization" \in raised
    /\ Len(algorithms) >= 1
    /\ Len(result.route) = n

\* C9: an invalid instance is rejected before any algorithm starts: no
\* algorithm is entered, no entry is made and no route is returned.
C9_InvalidInstanceRejected ==
    ~ValidInstance(distance_matrix, n, start_index) =>
        /\ ~result.returned
        /\ called \cap (AlgorithmFunctions \cup {"nearest_neighbor_heuristic",
                                                 "advanced_decode_solution"}) = {}
        /\ algorithms = <<>>

\* C10: each calculate_route_cost returns the sum of the weights of the
\* consecutive pairs of the route, without the edge from the last node back
\* to the first and 0 for fewer than two nodes; the three agree.
C10_OpenPathCost ==
    pc = "costed" =>
        /\ result.cost = OpenPathCost(result.route, distance_matrix)
        /\ Len(result.route) < 2 => result.cost = 0
        /\ \A name \in DOMAIN result.all_results :
               result.all_results[name] = result.cost

\* a route of three nodes with a positive cost and a positive edge back to
\* its first node
C10_Witness ==
    /\ pc = "costed"
    /\ Len(result.route) >= 3
    /\ result.cost > 0
    /\ DOMAIN result.all_results = {"ClassicalOptimizer", "QuantumLayer"}
    /\ distance_matrix[result.route[Len(result.route)]][result.route[1]] > 0

(* --------------------- the local searches on their own ------------------ *)
\* every ordering of the nodes 0..count-1
RECURSIVE OrderingsOf(_)
OrderingsOf(nodes) ==
    IF nodes = {} THEN {<<>>}
    ELSE UNION {{<<x>> \o rest : rest \in OrderingsOf(nodes \ {x})} : x \in nodes}

Orderings(count) == OrderingsOf(Nodes(count))

\* the 4-node unit square in thousandths: sides 1000, diagonals 1414 (sqrt(2));
\* opposite is the corner across the diagonal from corner 0
SquareDist(opposite, i, j) ==
    IF i = j THEN 0
    ELSE IF {i, j} = {0, opposite} \/ {i, j} = (1 .. 3) \ {opposite} THEN 1414
    ELSE 1000

UnitSquare(opposite) ==
    [i \in Nodes(4) |-> [j \in Nodes(4) |-> SquareDist(opposite, i, j)]]

IsUnitSquare(dm, count) == count = 4 /\ \E opposite \in 1 .. 3 : dm = UnitSquare(opposite)

\* a seed route of at most longest nodes and a symmetric matrix are handed to
\* a local search; at is the position the run starts from
SeedInit(longest, at) ==
    /\ n \in 1 .. longest
    /\ distance_matrix \in {Matrix(n, shape) : shape \in 0 .. MaxShape}
                           \cup (IF n = 4 THEN {UnitSquare(opposite) : opposite \in 1 .. 3}
                                 ELSE {})
    /\ \E route \in Orderings(n) :
           /\ result = [NoResult EXCEPT !.route = route]
           /\ start_index = route[1]
    /\ rng = 0
    /\ pc = at
    /\ algorithms = <<>>
    /\ qaoa = QaoaIdle
    /\ sa = SaIdle
    /\ ga = GaIdle
    /\ aco = AcoIdle
    /\ called = {}
    /\ raised = {}

InitLocalSearch == SeedInit(MaxSeed, "local_search")

InitThreeOpt == SeedInit(MaxThreeOptSeed, "three_opt")

\* the list <<first pass, second pass>> of a local search applied to a route
\* and then to its own output
TwoPasses(name, once, twice) ==
    <<[name |-> name, route |-> once], [name |-> name, route |-> twice]>>

\* two_opt_improvement and two_opt_optimization, each run on the seed and then
\* on its own output
TwoOptTwice ==
    /\ pc = "local_search"
    /\ pc' = "two_opt_twice"
    /\ \E once \in {two_opt_improvement(result.route, distance_matrix)},
          classical_once \in {two_opt_optimization(result.route, distance_matrix)} :
           algorithms' =
               TwoPasses("two_opt_improvement", once,
                         two_opt_improvement(once, distance_matrix))
               \o TwoPasses("two_opt_optimization", classical_once,
                            two_opt_optimization(classical_once, distance_matrix))
    /\ called' = {"two_opt_improvement", "two_opt_optimization"}
    /\ UNCHANGED <<n, distance_matrix, start_index, rng, qaoa, sa, ga, aco, result,
                   raised>>

\* three_opt_improvement run on the seed and then on its own output
ThreeOptTwice ==
    /\ pc = "three_opt"
    /\ pc' = "three_opt_twice"
    /\ \E once \in {three_opt_improvement(result.route, distance_matrix)} :
           algorithms' = TwoPasses("three_opt_improvement", once,
                                   three_opt_improvement(once, distance_matrix))
    /\ called' = {"three_opt_improvement"}
    /\ UNCHANGED <<n, distance_matrix, start_index, rng, qaoa, sa, ga, aco, result,
                   raised>>

\* the first restart of enhanced_two_opt_optimization up to its 2-opt: the
\* nearest-neighbour route from the start, then two_opt_improvement on it
NearestThenTwoOpt ==
    /\ pc = "local_search"
    /\ pc' = "nearest_two_opt"
    /\ \E route \in {nearest_neighbor_heuristic(distance_matrix, n, start_index)} :
           algorithms' =
               <<[name |-> "nearest_neighbor_heuristic", route |-> route],
                 [name |-> "two_opt_improvement",
                  route |-> two_opt_improvement(route, distance_matrix)]>>
    /\ called' = {"nearest_neighbor_heuristic", "two_opt_improvement"}
    /\ UNCHANGED <<n, distance_matrix, start_index, rng, qaoa, sa, ga, aco, result,
                   raised>>

NextLocalSearch ==
    \/ TwoOptTwice
    \/ NearestThenTwoOpt

SpecLocalSearch == InitLocalSearch /\ [][NextLocalSearch]_vars

NextThreeOpt == ThreeOptTwice

SpecThreeOpt == InitThreeOpt /\ [][NextThreeOpt]_vars

\* C11: 2-opt is idempotent: for every seed route and symmetric matrix,
\* two_opt_improvement and two_opt_optimization return their own output
\* unchanged when run on it again.
C11_TwoOptIdempotent ==
    pc = "two_opt_twice" =>
        /\ algorithms[2].route = algorithms[1].route
        /\ algorithms[4].route = algorithms[3].route

\* a seed of at least four nodes that the first pass of 2-opt reordered
C11_Witness ==
    /\ pc = "two_opt_twice"
    /\ Len(result.route) >= 4
    /\ algorithms[1].route # result.route
    /\ algorithms[3].route # result.route

\* C12: 3-opt is idempotent: for every seed route and symmetric matrix,
\* three_opt_improvement returns its own output unchanged, at the same cost,
\* when run on it again.
C12_ThreeOptIdempotent ==
    pc = "three_opt_twice" =>
        /\ algorithms[2].route = algorithms[1].route
        /\ calculate_route_cost(algorithms[2].route, distance_matrix)
               = calculate_route_cost(algorithms[1].route, distance_matrix)

\* C16: on the 4-node unit square, for every start node, 2-opt on the
\* nearest-neighbour route from that start returns a perimeter tour, three
\* sides long: open-path cost 3 (3000 thousandths).
C16_UnitSquarePerimeter ==
    (pc = "nearest_two_opt" /\ IsUnitSquare(distance_matrix, n)) =>
        /\ IsPermutation(algorithms[2].route, 4)
        /\ algorithms[2].route[1] = start_index
        /\ \A k \in 1 .. 3 :
               distance_matrix[algorithms[2].route[k]][algorithms[2].route[k + 1]] = 1000
        /\ calculate_route_cost(algorithms[2].route, distance_matrix) = 3000

\* the unit square whose corners 0 and 2 are opposite, from start node 3
C16_Witness ==
    /\ pc = "nearest_two_opt"
    /\ distance_matrix = UnitSquare(2)
    /\ start_index = 3
    /\ Len(algorithms) = 2

(* ------------------------- the random sources --------------------------- *)
\* C13: every randomized run draws from a source of its own, so that no step
\* of any algorithm reads, advances or reseeds np.random, the generator of the
\* whole process that every other run would see
C13_PrivateRandomSources == [][rng' = rng]_vars

(* ----------------- the randomized algorithms, seeded -------------------- *)
\* for iteration in range(max_iterations) of simulated_annealing_optimization
RECURSIVE SaLoop(_, _, _)
SaLoop(s, dm, r) ==
    IF s.iteration >= MaxIterations \/ s.broke
    THEN [raised |-> FALSE, route |-> s.best_route, rng |-> r]
    ELSE With(SaIteration(s, dm, r), LAMBDA done : SaLoop(done.sa, dm, done.rng))

simulated_annealing_optimization(dm, count, start, r) ==
    SaLoop(SaStart(dm, count, start), dm, r)

\* for generation in range(generations) of genetic_algorithm_optimization
RECURSIVE GaLoop(_, _, _, _, _)
GaLoop(population, generation, dm, start, r) ==
    IF generation >= Generations
    THEN [raised |-> FALSE, route |-> GaBest(population, dm), rng |-> r]
    ELSE With(GaGeneration(population, dm, start, r), LAMBDA made :
             GaLoop(made.population, generation + 1, dm, start, made.rng))

genetic_algorithm_optimization(dm, count, start, r) ==
    With(GaInitialPopulation(count, start, <<>>, r), LAMBDA made :
        GaLoop(made.population, 0, dm, start, made.rng))

\* for iteration in range(n_iterations): for ant in range(n_ants) of
\* ant_colony_optimization; an ant that raises ends the run
RECURSIVE AcoLoop(_, _, _, _, _)
AcoLoop(a, dm, count, start, r) ==
    IF a.iteration >= NIterations
    THEN [raised |-> FALSE, route |-> a.best_route, rng |-> r]
    ELSE With(construct_ant_route(count, start, a.inf_edges, r), LAMBDA made :
             IF made.raised
             THEN [raised |-> TRUE, route |-> NoRoute, rng |-> made.rng]
             ELSE AcoLoop(AcoAfterAnt(a, made.route,
                                      calculate_route_cost(made.route, dm), dm),
                          dm, count, start, made.rng))

ant_colony_optimization(dm, count, start, r) == AcoLoop(AcoIdle, dm, count, start, r)

\* a valid instance, the generator in any state, and nothing run yet
InitSeeded ==
    /\ n \in 1 .. MaxN
    /\ \E shape \in 0 .. MaxShape : distance_matrix = Matrix(n, shape)
    /\ start_index \in Nodes(n)
    /\ InitCommon

\* what two runs of one algorithm leave behind: both outcomes, and the state of
\* the generator after the second
SeededTwice(name, at, first, second) ==
    /\ pc' = at
    /\ algorithms' = <<[name |-> name, route |-> first.route],
                       [name |-> name, route |-> second.route]>>
    /\ raised' = (IF first.raised THEN {"first"} ELSE {})
                 \cup (IF second.raised THEN {"second"} ELSE {})
    /\ rng' = second.rng
    /\ UNCHANGED <<n, distance_matrix, start_index, qaoa, sa, ga, aco, result, called>>

\* np.random.seed(seed); simulated_annealing_optimization(...), twice
SaSeededTwice ==
    /\ pc = "optimize_route"
    /\ \E seed \in 0 .. MaxRandomSeed :
        \E first \in {simulated_annealing_optimization(distance_matrix, n, start_index,
                                                       np_random_seed(rng, seed))} :
            \E second \in {simulated_annealing_optimization(
                               distance_matrix, n, start_index,
                               np_random_seed(first.rng, seed))} :
                SeededTwice("Simulated Annealing", "sa_twice", first, second)

\* np.random.seed(seed); genetic_algorithm_optimization(...), twice
GaSeededTwice ==
    /\ pc = "optimize_route"
    /\ n >= GaMinNodes
    /\ \E seed \in 0 .. MaxRandomSeed :
        \E first \in {genetic_algorithm_optimization(distance_matrix, n, start_index,
                                                     np_random_seed(rng, seed))} :
            \E second \in {genetic_algorithm_optimization(
                               distance_matrix, n, start_index,
                               np_random_seed(first.rng, seed))} :
                SeededTwice("Genetic Algorithm", "ga_twice", first, second)

\* np.random.seed(seed); ant_colony_optimization(...), twice
AcoSeededTwice ==
    /\ pc = "optimize_route"
    /\ n >= AcoMinNodes
    /\ \E seed \in 0 .. MaxRandomSeed :
        \E first \in {ant_colony_optimization(distance_matrix, n, start_index,
                                              np_random_seed(rng, seed))} :
            \E second \in {ant_colony_optimization(
                               distance_matrix, n, start_index,
                               np_random_seed(first.rng, seed))} :
                SeededTwice("Ant Colony", "aco_twice", first, second)

NextSeeded ==
    \/ SaSeededTwice
    \/ GaSeededTwice
    \/ AcoSeededTwice

SpecSeeded == InitSeeded /\ [][NextSeeded]_vars

InitDecode ==
    /\ n \in 1 .. MaxN
    /\ \E shape \in 0 .. MaxShape : distance_matrix = Matrix(n, shape)
    /\ start_index \in Nodes(n)
    /\ rng \in 0 .. (RngMod - 1)
    /\ pc = "decode"
    /\ algorithms = <<>>
    /\ qaoa = QaoaIdle
    /\ sa = SaIdle
    /\ ga = GaIdle
    /\ aco = AcoIdle
    /\ result = NoResult
    /\ called = {}
    /\ raised = {}

\* advanced_decode_solution(counts, n_nodes, start_index, distance_matrix) on
\* the counts of a sampler run or on counts that are empty; qaoa keeps the
\* number of bitstrings read and the best route of the strategies
AdvancedDecode ==
    /\ pc = "decode"
    /\ \E top_results \in SamplerCounts(NumQubits(n)) \cup {<<>>} :
        \E done \in {DecodeTop(top_results, 1, n, start_index, distance_matrix,
                               [route |-> NoRoute, cost |-> Inf], rng)} :
            /\ qaoa' = [k |-> Len(top_results), best_route |-> done.best.route,
                        best_cost |-> done.best.cost]
            /\ result' = [NoResult EXCEPT !.returned = TRUE,
                                          !.route = DecodedRoute(done, n).route]
            /\ rng' = DecodedRoute(done, n).rng
    /\ pc' = "decoded"
    /\ called' = called \cup {"advanced_decode_solution"}
    /\ UNCHANGED <<n, distance_matrix, start_index, algorithms, sa, ga, aco, raised>>

NextDecode == AdvancedDecode

SpecDecode == InitDecode /\ [][NextDecode]_vars

\* the identity ordering 0 .. count-1 rotated so that it starts at start
RotatedIdentity(count, start) == [k \in 1 .. count |-> (start + k - 1) % count]

\* C15: when no strategy yielded a route, empty counts included, the decode
\* returns the identity ordering rotated to start at startIndex; what the
\* decode returns is always a valid route from startIndex
C15_DecodeFallsBackToRotatedIdentity ==
    pc = "decoded" =>
        /\ qaoa.best_route = NoRoute =>
               result.route = RotatedIdentity(n, start_index)
        /\ IsPermutation(result.route, n)
        /\ result.route[1] = start_index

(* ------------------------- the smallest instances ----------------------- *)
\* C17: on an instance of one node no algorithm fails, the except branch is
\* never taken, and the ensemble returns the route [startIndex] with cost 0
C17_SingleNode ==
    n = 1 =>
        /\ raised = {}
        /\ pc \notin {"except", "raised"}
        /\ pc = "done" =>
               /\ result.returned
               /\ result.backend = "Hybrid"
               /\ result.route = <<start_index>>
               /\ result.cost = 0

\* the ensemble returned on one node after the candidate generator, simulated
\* annealing and the restarted 2-opt had each handed in a route
C17_Witness ==
    /\ n = 1
    /\ pc = "done"
    /\ result.route = <<start_index>>
    /\ NamesOf(algorithms) = {"Quantum QAOA", "Simulated Annealing", "Enhanced 2-opt"}

\* C18: on an instance of two nodes every algorithm that ran handed in the
\* route [startIndex, other], and the ensemble returns that route with the
\* cost matrix[startIndex][other]
C18_TwoNodes ==
    n = 2 =>
        /\ \A k \in 1 .. Len(algorithms) :
               algorithms[k].route = <<start_index, 1 - start_index>>
        /\ pc = "done" =>
               /\ result.route = <<start_index, 1 - start_index>>
               /\ result.cost = distance_matrix[start_index][1 - start_index]
               /\ \A name \in DOMAIN result.all_results :
                      result.all_results[name] = distance_matrix[start_index][1 - start_index]

\* the ensemble returned on two nodes a positive distance apart, from the
\* start index 1, with three algorithms in its report
C18_Witness ==
    /\ n = 2
    /\ start_index = 1
    /\ pc = "done"
    /\ result.route = <<1, 0>>
    /\ result.cost > 0
    /\ DOMAIN result.all_results
           = {"Quantum QAOA", "Simulated Annealing", "Enhanced 2-opt"}

(* ------------------------------ termination ----------------------------- *)
\* optimize_route has returned or raised
Terminated == pc \in {"done", "raised"}

\* the position of optimize_route, counted in stages still ahead of it
StagesAhead ==
    CASE pc = "optimize_route" -> 11
      [] pc = "qaoa" -> 10
      [] pc = "sa" -> 9
      [] pc = "sa_loop" -> 8
      [] pc = "ga" -> 7
      [] pc = "ga_loop" -> 6
      [] pc = "aco" -> 5
      [] pc = "aco_loop" -> 4
      [] pc = "two_opt" -> 3
      [] pc = "select" -> 2
      [] pc = "except" -> 1
      [] OTHER -> 0

\* the passes the loop optimize_route is in may still make
PassesAhead ==
    CASE pc = "qaoa" -> ParameterSets - qaoa.k
      [] pc = "sa_loop" -> MaxIterations - sa.iteration
      [] pc = "ga_loop" -> Generations - ga.generation
      [] pc = "aco_loop" -> NIterations * NAnts - (aco.iteration * NAnts + aco.ant)
      [] OTHER -> 0

\* the most passes any one loop makes
MostPasses == ParameterSets + MaxIterations + Generations + NIterations * NAnts

\* a bound on the steps optimize_route still takes: it is never negative, so
\* a run on which every step lowers it is finite
StepsAhead == StagesAhead * (MostPasses + 1) + PassesAhead

\* every step brings optimize_route nearer its end
Progresses == StepsAhead' < StepsAhead /\ PassesAhead' >= 0

\* every loop counter is within its cap: the parameter sets of the candidate
\* generator, the iterations of simulated annealing, the generations, the
\* iterations and ants of ant colony, the sweeps either 2-opt makes on the
\* nearest neighbour route, and the steps of the construction of that route
CountersWithinCaps ==
    /\ qaoa.k <= ParameterSets
    /\ sa.iteration <= MaxIterations
    /\ ga.generation <= Generations
    /\ aco.iteration <= NIterations
    /\ aco.ant < NAnts
    /\ aco.iteration = NIterations => aco.ant = 0
    /\ \E route \in {nearest_neighbor_heuristic(distance_matrix, n, start_index)} :
           /\ Len(route) = n
           /\ TwoOptIterations(route, distance_matrix, TRUE, 0) \in 1 .. TwoOptMaxIterations
           /\ ClassicalTwoOptIterations(route, distance_matrix, TRUE, 0)
                  \in 1 .. ClassicalTwoOptMaxIterations

\* the genetic algorithm leaves its loop after exactly its generations
GaEndsAfterGenerations ==
    (pc = "ga_loop" /\ pc' # "ga_loop") => ga.generation = Generations

\* ant colony leaves its loop, whichever way, after exactly iterations x ants ants
AcoEndsAfterAllAnts ==
    (pc = "aco_loop" /\ pc' # "aco_loop") =>
        aco.iteration * NAnts + aco.ant = NIterations * NAnts

\* ant colony returns after exactly iterations x ants ants; an ant that raises
\* ends it earlier
AcoReturnsAfterAllAnts ==
    (pc = "aco_loop" /\ pc' # "aco_loop") =>
        \/ pc' = "two_opt" /\ aco.iteration * NAnts + aco.ant = NIterations * NAnts
        \/ pc' = "except" /\ aco.iteration * NAnts + aco.ant < NIterations * NAnts

Without(seq, k) == SubSeq(seq, 1, k - 1) \o SubSeq(seq, k + 1, Len(seq))

\* the for loop of QuantumLayer.bitstring_to_route: remaining is a list, and
\* the generator is read only for a one bit with more than one node remaining
RECURSIVE LayerRouteLoop(_, _, _, _, _)
LayerRouteLoop(bitstring, route, remaining, i, r) ==
    IF remaining = <<>> THEN [route |-> route, rng |-> r]
    ELSE IF bitstring[(i % Len(bitstring)) + 1] = 1 /\ Len(remaining) > 1
    THEN With(RandInt(r, 0, Min(2, Len(remaining))), LAMBDA idx :
             LayerRouteLoop(bitstring, Append(route, remaining[idx + 1]),
                            Without(remaining, idx + 1), i + 1, NextRng(r)))
    ELSE LayerRouteLoop(bitstring, Append(route, remaining[1]), Tail(remaining),
                        i + 1, r)

\* QuantumLayer.bitstring_to_route: seeded from the bitstring, from node 0
bitstring_to_route(bitstring, count) ==
    LayerRouteLoop(bitstring, <<0>>, [k \in 1 .. (count - 1) |-> k], 0,
                   BitstringSeed(bitstring))

\* QuantumLayer.is_valid_route
is_valid_route(route, count) ==
    /\ Len(route) = count
    /\ Cardinality({route[k] : k \in 1 .. Len(route)}) = count
    /\ \A k \in 1 .. Len(route) : 0 <= route[k] /\ route[k] < count

\* for bitstring, count in top_results: keep the routes that are valid
RECURSIVE LayerDecodeLoop(_, _, _, _, _)
LayerDecodeLoop(top_results, k, count, candidate_routes, r) ==
    IF k > Len(top_results) THEN [candidate_routes |-> candidate_routes, rng |-> r]
    ELSE With(bitstring_to_route(top_results[k], count), LAMBDA made :
             LayerDecodeLoop(top_results, k + 1, count,
                             IF is_valid_route(made.route, count)
                             THEN Append(candidate_routes, made.route)
                             ELSE candidate_routes,
                             made.rng))

\* QuantumLayer.decode_quantum_results
decode_quantum_results(top_results, count, r) ==
    With(LayerDecodeLoop(top_results, 1, count, <<>>, r), LAMBDA done :
        [candidate_routes |-> IF done.candidate_routes = <<>>
                              THEN <<Range(count)>>
                              ELSE done.candidate_routes,
         rng |-> done.rng])

\* for route in candidate_routes[:3]: keep the route of strictly lower cost
RECURSIVE LayerKeepBest(_, _, _, _)
LayerKeepBest(candidate_routes, k, dm, best) ==
    IF k > Min(LayerCandidates, Len(candidate_routes)) THEN best
    ELSE LayerKeepBest(candidate_routes, k + 1, dm,
                       KeepLower(best, candidate_routes[k],
                                 layer_calculate_route_cost(candidate_routes[k], dm)))

\* ClassicalOptimizer.nearest_neighbor_improvement
nearest_neighbor_improvement(route, dm) ==
    NearestNeighborLoop(dm, <<route[1]>>, {route[k] : k \in 2 .. Len(route)}, route[1])

\* ClassicalOptimizer.nearest_neighbor_heuristic
classical_nearest_neighbor_heuristic(dm, count, start) ==
    NearestNeighborLoop(dm, <<start>>, Nodes(count) \ {start}, start)

\* ClassicalOptimizer.two_opt_swap
classical_two_opt_swap(route, r) ==
    IF Len(route) < ClassicalTwoOptSwapMinNodes THEN [route |-> route, rng |-> r]
    ELSE With(RandInt(r, 1, Len(route) - 1), LAMBDA i :
             [route |-> ReverseSlice(route, i,
                                     RandInt(NextRng(r), i + 1, Len(route))),
              rng |-> NextRng(NextRng(r))])

\* the locals ClassicalOptimizer.simulated_annealing enters its loop with
ClassicalSaEnter(current_route, current_cost) ==
    [current_route |-> current_route, current_cost |-> current_cost,
     best_route |-> current_route, best_cost |-> current_cost,
     temperature |-> ClassicalInitialTempMilli, iteration |-> 0, broke |-> FALSE]

\* a faulty cooling: "if temperature < final_temp: break" is left out
ClassicalSaCoolNoBreak(s) ==
    [s EXCEPT !.temperature = (s.temperature * ClassicalCoolingRateMilli) \div 1000,
              !.iteration = s.iteration + 1]

\* temperature *= cooling_rate; if temperature < final_temp: break
ClassicalSaCool(s) ==
    [s EXCEPT !.temperature = (s.temperature * ClassicalCoolingRateMilli) \div 1000,
              !.iteration = s.iteration + 1,
              !.broke = (s.temperature * ClassicalCoolingRateMilli) \div 1000
                            < ClassicalFinalTempMilli]

\* the acceptance test of ClassicalOptimizer.simulated_annealing
ClassicalSaDecide(s, new_route, new_cost, r) ==
    IF new_cost < s.current_cost
    THEN [sa |-> ClassicalSaCool(SaAccept(s, new_route, new_cost)), rng |-> r]
    ELSE IF AcceptWorse(r, new_cost, s.current_cost, s.temperature)
    THEN [sa |-> ClassicalSaCool(SaAccept(s, new_route, new_cost)), rng |-> NextRng(r)]
    ELSE [sa |-> ClassicalSaCool(s), rng |-> NextRng(r)]

\* for iteration in range(max_iterations)
RECURSIVE ClassicalSaLoop(_, _, _)
ClassicalSaLoop(s, dm, r) ==
    IF s.iteration >= MaxClassicalIterations \/ s.broke
    THEN [route |-> s.best_route, rng |-> r]
    ELSE With(classical_two_opt_swap(s.current_route, r), LAMBDA swapped :
         With(ClassicalSaDecide(s, swapped.route,
                                classical_calculate_route_cost(swapped.route, dm),
                                swapped.rng), LAMBDA done :
             ClassicalSaLoop(done.sa, dm, done.rng)))

\* ClassicalOptimizer.simulated_annealing
simulated_annealing(route, dm, r) ==
    ClassicalSaLoop(ClassicalSaEnter(route, classical_calculate_route_cost(route, dm)),
                    dm, r)

\* a faulty call: the routine is given route itself, so that the caller's list
\* holds what the routine left in its argument
ArgumentItself(route, argument_after) == argument_after

\* a routine called with route.copy(): it works on a list of its own, and the
\* caller's list keeps its content whatever the routine does to its argument
ArgumentCopy(route, argument_after) == route

\* the argument list of two_opt_optimization after the call: the reversals
\* route[i:j+1] = route[i:j+1][::-1] are made in the argument, which is
\* also what is returned
TwoOptArgumentAfter(route, dm) == two_opt_optimization(route, dm)

\* a candidate route after its pass of the loop of heuristic_optimization:
\* nearest_neighbor_improvement builds a new list and simulated_annealing
\* starts from route.copy(), so that only 2-opt writes to its argument
CandidateAfter(route, dm) == ArgumentCopy(route, TwoOptArgumentAfter(route, dm))

\* for opt_route in optimized_routes: keep the route of strictly lower cost
ClassicalKeep(best, route, dm) ==
    KeepLower(best, route, classical_calculate_route_cost(route, dm))

\* for route in candidate_routes of heuristic_optimization
RECURSIVE HeuristicLoop(_, _, _, _, _)
HeuristicLoop(candidate_routes, k, dm, best, r) ==
    IF k > Len(candidate_routes) THEN [route |-> best.route, cost |-> best.cost, rng |-> r]
    ELSE With(simulated_annealing(candidate_routes[k], dm, r), LAMBDA annealed :
             HeuristicLoop(candidate_routes, k + 1, dm,
                           ClassicalKeep(
                               ClassicalKeep(
                                   ClassicalKeep(best,
                                                 two_opt_optimization(candidate_routes[k],
                                                                      dm), dm),
                                   nearest_neighbor_improvement(candidate_routes[k], dm),
                                   dm),
                               annealed.route, dm),
                           annealed.rng))

\* ClassicalOptimizer.heuristic_optimization: without candidates the nearest
\* neighbour route from node 0
heuristic_optimization(candidate_routes, dm, count, r) ==
    IF candidate_routes = <<>>
    THEN With(classical_nearest_neighbor_heuristic(dm, count, 0), LAMBDA route :
             [route |-> route, cost |-> classical_calculate_route_cost(route, dm),
              rng |-> r])
    ELSE HeuristicLoop(candidate_routes, 1, dm, [route |-> NoRoute, cost |-> Inf], r)

\* route.index(x)
IndexOf(route, x) ==
    CHOOSE k \in 1 .. Len(route) :
        route[k] = x /\ \A m \in 1 .. (k - 1) : route[m] # x

\* route[start_pos:] + route[:start_pos]
RotateAt(route, start_pos) ==
    SubSeq(route, start_pos, Len(route)) \o SubSeq(route, 1, start_pos - 1)

\* a faulty offset: start_pos = start_index, the position and not the node
ApplyStartIndexAsPosition(route, start) ==
    IF start > 0 /\ start < Len(route)
    THEN RotateAt(route, start + 1)
    ELSE route

\* the start index offset of /api/optimize
ApplyStartIndex(route, start) ==
    IF start > 0 /\ start < Len(route)
    THEN RotateAt(route, IF InRoute(start, route) THEN IndexOf(route, start) ELSE 1)
    ELSE route

\* total_distance of /api/optimize
RECURSIVE TotalDistanceLoop(_, _, _, _)
TotalDistanceLoop(route, dm, i, total_distance) ==
    IF i >= Len(route) - 1 THEN total_distance
    ELSE TotalDistanceLoop(route, dm, i + 1,
                           total_distance + dm[At(route, i)][At(route, i + 1)])

\* /api/optimize is called for two stops or more and a start index among them
InitServe ==
    /\ n \in MinStops .. MaxN
    /\ \E shape \in 0 .. MaxShape : distance_matrix = Matrix(n, shape)
    /\ start_index \in Nodes(n)
    /\ rng \in 0 .. (RngMod - 1)
    /\ pc = "run_qaoa_circuit"
    /\ algorithms = <<>>
    /\ qaoa = QaoaIdle
    /\ sa = SaIdle
    /\ ga = GaIdle
    /\ aco = AcoIdle
    /\ result = NoResult
    /\ called = {}
    /\ raised = {}

\* run_qaoa_circuit: a circuit or a sampler run raises, success is False and
\* the candidate routes are empty
ServeQuantumFails ==
    /\ pc = "run_qaoa_circuit"
    /\ qaoa.k < LayerParameterSets
    /\ pc' = "heuristic_optimization"
    /\ qaoa' = QaoaIdle
    /\ algorithms' = <<>>
    /\ called' = called \cup {"run_qaoa_circuit"}
    /\ UNCHANGED <<n, distance_matrix, start_index, rng, sa, ga, aco, result, raised>>

\* run_qaoa_circuit: one parameter set whose sampler returns counts
ServeParameterSet ==
    /\ pc = "run_qaoa_circuit"
    /\ qaoa.k < LayerParameterSets
    /\ \E top_results \in SamplerCounts(NumQubits(n)) :
        \E decoded \in {decode_quantum_results(top_results, n, rng)} :
            \E best \in {LayerKeepBest(decoded.candidate_routes, 1, distance_matrix,
                                       [route |-> qaoa.best_route,
                                        cost |-> qaoa.best_cost])} :
                /\ qaoa' = [k |-> qaoa.k + 1, best_route |-> best.route,
                            best_cost |-> best.cost]
                /\ rng' = decoded.rng
    /\ called' = called \cup {"run_qaoa_circuit", "decode_quantum_results"}
    /\ UNCHANGED <<n, distance_matrix, start_index, pc, algorithms, sa, ga, aco,
                   result, raised>>

\* run_qaoa_circuit returns its best route, which becomes the one candidate
ServeQuantumReturns ==
    /\ pc = "run_qaoa_circuit"
    /\ qaoa.k >= LayerParameterSets
    /\ pc' = "heuristic_optimization"
    /\ qaoa' = QaoaIdle
    /\ algorithms' = IF qaoa.best_route # NoRoute
                     THEN <<[name |-> "QAOA Quantum Circuit", route |-> qaoa.best_route]>>
                     ELSE <<>>
    /\ UNCHANGED <<n, distance_matrix, start_index, rng, sa, ga, aco, result, called,
                   raised>>

\* classical_optimizer.heuristic_optimization(candidate_routes, distance_matrix)
ServeClassical ==
    /\ pc = "heuristic_optimization"
    /\ \E best \in {heuristic_optimization([k \in 1 .. Len(algorithms) |->
                                               algorithms[k].route],
                                           distance_matrix, n, rng)} :
           /\ result' = [NoResult EXCEPT !.route = best.route, !.cost = best.cost]
           /\ rng' = best.rng
    /\ algorithms' = [k \in 1 .. Len(algorithms) |->
                         [algorithms[k] EXCEPT
                             !.route = CandidateAfter(@, distance_matrix)]]
    /\ pc' = "start_index_offset"
    /\ called' = called \cup {"heuristic_optimization"}
    /\ UNCHANGED <<n, distance_matrix, start_index, qaoa, sa, ga, aco, raised>>

\* the start index offset, total_distance and the response of /api/optimize
ServeRespond ==
    /\ pc = "start_index_offset"
    /\ \E optimized_route \in {ApplyStartIndex(result.route, start_index)} :
           result' = [returned |-> TRUE, route |-> optimized_route,
                      cost |-> TotalDistanceLoop(optimized_route, distance_matrix, 0, 0),
                      backend |-> IF algorithms # <<>> THEN "Hybrid"
                                  ELSE "Classical Fallback",
                      algorithm |-> "Classical Heuristic Optimization",
                      all_results |-> <<>>]
    /\ pc' = "responded"
    /\ UNCHANGED <<n, distance_matrix, start_index, rng, algorithms, qaoa, sa, ga, aco,
                   called, raised>>

NextServe ==
    \/ ServeQuantumFails
    \/ ServeParameterSet
    \/ ServeQuantumReturns
    \/ ServeClassical
    \/ ServeRespond

SpecServe == InitServe /\ [][NextServe]_vars

\* C20: the total_distance /api/optimize reports is not above the open-path
\* cost of the nearest neighbour route from the requested start index
C20_ServedNotAboveNearestNeighbour ==
    pc = "responded" =>
        result.cost <= OpenPathCost(
                           classical_nearest_neighbor_heuristic(distance_matrix, n,
                                                                start_index),
                           distance_matrix)

(* ------------------------- simulated annealing -------------------------- *)
\* simulated annealing is inside its loop
InSaLoop == pc = "sa_loop"

\* the cost of the neighbour the next iteration generates
NextNeighbourCost ==
    calculate_route_cost(two_opt_swap(sa.current_route, rng).route, distance_matrix)

\* the best-seen cost is the cost of the best-seen route, is not above the
\* current cost, nor above the cost of the initial route
SaBestIsTracked ==
    InSaLoop =>
        /\ sa.best_cost = OpenPathCost(sa.best_route, distance_matrix)
        /\ sa.current_cost = OpenPathCost(sa.current_route, distance_matrix)
        /\ sa.best_cost <= sa.current_cost
        /\ sa.best_cost <= NearestNeighbourCost
        /\ sa.iteration = 0 => sa.best_cost = NearestNeighbourCost

\* an iteration leaves the best-seen cost at the minimum of what it was and
\* the cost of the neighbour it generated, accepted or not
SaBestIsMinimumSoFar ==
    (InSaLoop /\ pc' = "sa_loop") =>
        sa'.best_cost = Min(sa.best_cost, NextNeighbourCost)

\* what simulated annealing returns is its best-seen route
SaReturnsBest ==
    (InSaLoop /\ pc' # "sa_loop") =>
        /\ algorithms'[Len(algorithms')].name = "Simulated Annealing"
        /\ algorithms'[Len(algorithms')].route = sa.best_route

\* the same for ClassicalOptimizer.simulated_annealing, run from the current
\* route: what it returns costs no more than the route it was given
ClassicalSaNotAboveSeed ==
    InSaLoop =>
        classical_calculate_route_cost(
            simulated_annealing(sa.current_route, distance_matrix, rng).route,
            distance_matrix) <= sa.current_cost

\* C21: in simulated annealing the best-seen cost is the open-path cost of the
\* best-seen route, is never above the current cost, never increases, is the
\* minimum over the initial route and every neighbour generated so far, and
\* the best-seen route is what is returned, at a cost not above the initial
\* route's
C21_SaTracksBest ==
    /\ [](SaBestIsTracked /\ ClassicalSaNotAboveSeed)
    /\ [][SaBestIsMinimumSoFar /\ SaReturnsBest]_vars

\* simulated annealing has wandered uphill: its current route costs more than
\* its best-seen route, which is cheaper than the nearest neighbour route
C21_Witness ==
    /\ InSaLoop
    /\ sa.iteration > 0
    /\ sa.best_cost < sa.current_cost
    /\ sa.best_cost < NearestNeighbourCost

(* ------------------- the cooling of simulated annealing ----------------- *)
\* either simulated annealing is about to be called on a valid instance
InitCooling ==
    /\ n = MaxCoolingN
    /\ \E shape \in 0 .. MaxShape : distance_matrix = Matrix(n, shape)
    /\ start_index \in Nodes(n)
    /\ rng \in 0 .. (RngMod - 1)
    /\ pc = "cooling"
    /\ algorithms = <<>>
    /\ qaoa = QaoaIdle
    /\ sa = SaIdle
    /\ ga = GaIdle
    /\ aco = AcoIdle
    /\ result = NoResult
    /\ called = {}
    /\ raised = {}

\* simulated_annealing_optimization up to its loop, max_iterations at its default
HybridSaEnters ==
    /\ pc = "cooling"
    /\ pc' = "hybrid_sa"
    /\ sa' = SaStart(distance_matrix, n, start_index)
    /\ called' = called \cup {"simulated_annealing_optimization"}
    /\ UNCHANGED <<n, distance_matrix, start_index, rng, algorithms, qaoa, ga, aco,
                   result, raised>>

\* ClassicalOptimizer.simulated_annealing up to its loop, on the nearest
\* neighbour route, with max_iterations=100 as heuristic_optimization calls it
ClassicalSaEnters ==
    /\ pc = "cooling"
    /\ pc' = "classical_sa"
    /\ \E route \in {classical_nearest_neighbor_heuristic(distance_matrix, n,
                                                          start_index)} :
           sa' = ClassicalSaEnter(route,
                                  classical_calculate_route_cost(route, distance_matrix))
    /\ called' = called \cup {"simulated_annealing"}
    /\ UNCHANGED <<n, distance_matrix, start_index, rng, algorithms, qaoa, ga, aco,
                   result, raised>>

\* one iteration of simulated_annealing_optimization
HybridSaIterates ==
    /\ pc = "hybrid_sa"
    /\ sa.iteration < HybridSaMaxIterations
    /\ ~sa.broke
    /\ \E done \in {SaIteration(sa, distance_matrix, rng)} :
           /\ sa' = done.sa
           /\ rng' = done.rng
    /\ UNCHANGED <<n, distance_matrix, start_index, pc, algorithms, qaoa, ga, aco,
                   result, called, raised>>

\* one iteration of ClassicalOptimizer.simulated_annealing
ClassicalSaIterates ==
    /\ pc = "classical_sa"
    /\ sa.iteration < ClassicalSaMaxIterations
    /\ ~sa.broke
    /\ \E swapped \in {classical_two_opt_swap(sa.current_route, rng)} :
        \E done \in {ClassicalSaDecide(sa, swapped.route,
                                       classical_calculate_route_cost(swapped.route,
                                                                      distance_matrix),
                                       swapped.rng)} :
            /\ sa' = done.sa
            /\ rng' = done.rng
    /\ UNCHANGED <<n, distance_matrix, start_index, pc, algorithms, qaoa, ga, aco,
                   result, called, raised>>

\* return best_route, of either
SaLoopEnds ==
    /\ pc \in {"hybrid_sa", "classical_sa"}
    /\ \/ sa.broke
       \/ pc = "hybrid_sa" /\ sa.iteration >= HybridSaMaxIterations
       \/ pc = "classical_sa" /\ sa.iteration >= ClassicalSaMaxIterations
    /\ pc' = "sa_returned"
    /\ result' = [NoResult EXCEPT !.returned = TRUE, !.route = sa.best_route,
                                  !.cost = sa.best_cost]
    /\ UNCHANGED <<n, distance_matrix, start_index, rng, algorithms, qaoa, sa, ga, aco,
                   called, raised>>

NextCooling ==
    \/ HybridSaEnters
    \/ ClassicalSaEnters
    \/ HybridSaIterates
    \/ ClassicalSaIterates
    \/ SaLoopEnds

SpecCooling == InitCooling /\ [][NextCooling]_vars

InCoolingLoop == pc \in {"hybrid_sa", "classical_sa"}

CoolingRateOfLoop == IF pc = "hybrid_sa" THEN CoolingRateMilli ELSE ClassicalCoolingRateMilli

FinalTempOfLoop == IF pc = "hybrid_sa" THEN FinalTempMilli ELSE ClassicalFinalTempMilli

IterationCapOfLoop ==
    IF pc = "hybrid_sa" THEN HybridSaMaxIterations ELSE ClassicalSaMaxIterations

\* the loop has ended: the temperature fell below the final temperature at the
\* end of an iteration, or the cap is reached
LoopHasEnded == sa.broke \/ sa.iteration >= IterationCapOfLoop

\* inside the loop the count of iterations is within the cap, and the loop is
\* marked as broken exactly when an iteration left the temperature below the
\* final temperature
ColdMeansBroken ==
    InCoolingLoop =>
        /\ sa.iteration <= IterationCapOfLoop
        /\ sa.broke <=> (sa.iteration > 0 /\ sa.temperature < FinalTempOfLoop)

\* an iteration starts only while the loop has not ended, counts once, and
\* multiplies the temperature by the cooling rate once, which lowers it
CoolsOncePerIteration ==
    (InCoolingLoop /\ pc' = pc) =>
        /\ ~LoopHasEnded
        /\ sa'.iteration = sa.iteration + 1
        /\ sa'.temperature = (sa.temperature * CoolingRateOfLoop) \div 1000
        /\ sa'.temperature < sa.temperature

\* once the loop has ended the only step is the return: no neighbour is
\* generated and the generator is not read
NothingAfterTheEnd ==
    (InCoolingLoop /\ LoopHasEnded) =>
        /\ pc' = "sa_returned"
        /\ sa' = sa
        /\ rng' = rng
        /\ result'.route = sa.best_route

\* C22: simulated annealing multiplies the temperature by the cooling rate
\* exactly once per iteration, so that it strictly falls; the loop ends after
\* the first iteration that leaves the temperature below the final
\* temperature or at the iteration cap, whichever is first; after that no
\* neighbour is generated
C22_CoolingEndsTheLoop ==
    /\ []ColdMeansBroken
    /\ [][CoolsOncePerIteration /\ NothingAfterTheEnd]_vars

\* the classical loop was ended by the temperature, before its cap
C22_Witness ==
    /\ pc = "classical_sa"
    /\ sa.broke
    /\ sa.iteration < ClassicalSaMaxIterations
    /\ sa.temperature < ClassicalFinalTempMilli

(* ------------------------ random initial routes ------------------------- *)
\* the generator states a run can be in when a random initial route is made
GeneratorStates == 0 .. (RngMod - 1)

\* some generator state makes a member of the initial population another
\* ordering than start_index followed by the other nodes in ascending order
PopulationCanBeShuffled ==
    \E r \in GeneratorStates : \E k \in 1 .. PopulationSize :
        GaInitialPopulation(n, start_index, <<>>, r).population[k]
            # InitialRoute(n, start_index)

\* some generator state makes the seed of restart 1 or 2 such another ordering
RestartSeedCanBeShuffled ==
    \E r \in GeneratorStates : \E restart \in 1 .. (Restarts - 1) :
        RestartSeed(distance_matrix, n, start_index, restart, r).route
            # InitialRoute(n, start_index)

\* the members of the initial population as the run holds them
InitialPopulationIsFixedOrdering ==
    (pc = "ga_loop" /\ ga.generation = 0) =>
        \A k \in 1 .. Len(ga.population) :
            ga.population[k] = InitialRoute(n, start_index)

\* C23: a random initial route is a shuffle of positions 1..n-1 behind
\* start_index: with three nodes or more, where positions 1..n-1 have more
\* than one ordering, the members of the genetic algorithm's initial
\* population and the seeds of restarts 1 and 2 of enhanced 2-opt are not
\* only the fixed ordering
C23_InitialRoutesAreShuffled ==
    (pc \in {"ga_loop", "two_opt"} /\ n >= 3) =>
        /\ PopulationCanBeShuffled
        /\ RestartSeedCanBeShuffled

(* ---------------------- crossover and mutation ------------------------- *)
\* a population of the genetic algorithm in the course of its generations, on
\* the smallest instance it runs on: any two routes of the data model, then
\* the fixed initial route
PadPopulation(parent1, parent2, start) ==
    [k \in 1 .. PopulationSize |->
        IF k = 1 THEN parent1
        ELSE IF k = 2 THEN parent2
        ELSE InitialRoute(GaMinNodes, start)]

InitBreed ==
    /\ n = GaMinNodes
    /\ distance_matrix = Matrix(n, MaxShape)
    /\ start_index \in Nodes(n)
    /\ rng \in 0 .. (RngMod - 1)
    /\ pc = "breed"
    /\ algorithms = <<>>
    /\ qaoa = QaoaIdle
    /\ sa = SaIdle
    /\ \E parent1 \in {o \in Orderings(n) : o[1] = start_index} :
       \E parent2 \in {o \in Orderings(n) : o[1] = start_index} :
       \E generation \in 1 .. MaxBreedGenerations :
           ga = [population |-> PadPopulation(parent1, parent2, start_index),
                 generation |-> generation]
    /\ aco = AcoIdle
    /\ result = NoResult
    /\ called = {}
    /\ raised = {}

\* child = order_crossover(parent1, parent2, start_index), on the first two
\* members of the population
BreedCrossover ==
    /\ pc = "breed"
    /\ pc' = "crossed"
    /\ \E child \in {order_crossover(ga.population[1], ga.population[2], start_index,
                                     rng)} :
           /\ result' = [NoResult EXCEPT !.route = child.route]
           /\ rng' = child.rng
    /\ called' = called \cup {"order_crossover"}
    /\ UNCHANGED <<n, distance_matrix, start_index, algorithms, qaoa, sa, ga, aco,
                   raised>>

\* child = mutate_route(child, start_index), on the first member
BreedMutate ==
    /\ pc = "breed"
    /\ pc' = "mutated"
    /\ \E mutated \in {mutate_route(ga.population[1], rng)} :
           /\ result' = [NoResult EXCEPT !.route = mutated.route]
           /\ rng' = mutated.rng
    /\ called' = called \cup {"mutate_route"}
    /\ UNCHANGED <<n, distance_matrix, start_index, algorithms, qaoa, sa, ga, aco,
                   raised>>

\* one generation of genetic_algorithm_optimization
BreedGeneration ==
    /\ pc = "breed"
    /\ ga.generation < MaxBreedGenerations
    /\ \E made \in {GaGeneration(ga.population, distance_matrix, start_index, rng)} :
           /\ ga' = [population |-> made.population, generation |-> ga.generation + 1]
           /\ rng' = made.rng
    /\ called' = called \cup {"genetic_algorithm_optimization"}
    /\ UNCHANGED <<n, distance_matrix, start_index, pc, algorithms, qaoa, sa, aco,
                   result, raised>>

\* best_route = min(population, key=cost); return best_route
BreedReturn ==
    /\ pc = "breed"
    /\ ga.generation >= MaxBreedGenerations
    /\ pc' = "ga_returned"
    /\ \E best_route \in {GaBest(ga.population, distance_matrix)} :
           result' = [NoResult EXCEPT !.returned = TRUE, !.route = best_route,
                                      !.cost = calculate_route_cost(best_route,
                                                                    distance_matrix)]
    /\ UNCHANGED <<n, distance_matrix, start_index, rng, algorithms, qaoa, sa, ga, aco,
                   called, raised>>

NextBreed ==
    \/ BreedCrossover
    \/ BreedMutate
    \/ BreedGeneration
    \/ BreedReturn

SpecBreed == InitBreed /\ [][NextBreed]_vars

\* the crossover points order_crossover can draw: 1 <= start <= n-2 and
\* start+1 <= end <= n-1
CutPoints == {cut \in (1 .. (n - 2)) \X (2 .. (n - 1)) : cut[1] < cut[2]}

\* the child of two parents for given crossover points
ChildAt(parent1, parent2, cut) ==
    CrossoverChild(CrossoverCopy(parent1, start_index, cut[1], cut[2]), parent2)

\* the nodes of parent 1's slice, and the start
SliceNodes(parent1, cut) ==
    {start_index} \cup {parent1[k] : k \in (cut[1] + 1) .. cut[2]}

\* the child has parent 1's slice at the same positions, the unused nodes in
\* parent-2 order in its other positions, the start first, and is a permutation
ChildIsWellFormed(child, parent1, parent2, cut) ==
    /\ child[1] = start_index
    /\ \A k \in (cut[1] + 1) .. cut[2] : child[k] = parent1[k]
    /\ \E slice \in {SliceNodes(parent1, cut)} :
           SelectSeq(child, LAMBDA x : x \notin slice)
               = SelectSeq(parent2, LAMBDA x : x \notin slice)
    /\ ValidRoute(child)

\* for the two parents of the population, every crossover point gives a
\* well-formed child
CrossoverPreservesRoutes ==
    pc = "breed" =>
        \A cut \in CutPoints :
            \E child \in {ChildAt(ga.population[1], ga.population[2], cut)} :
                ChildIsWellFormed(child, ga.population[1], ga.population[2], cut)

\* the child order_crossover returned is the child of some crossover point
CrossoverChildIsOfSomeCut ==
    pc = "crossed" =>
        /\ \E cut \in CutPoints :
               result.route = ChildAt(ga.population[1], ga.population[2], cut)
        /\ ValidRoute(result.route)

\* mutate_route exchanged two positions among 1..n-1 of the route, or none
MutationSwapsBehindStart ==
    pc = "mutated" =>
        /\ \E i \in 1 .. (n - 1) : \E j \in 1 .. (n - 1) :
               result.route = Swap(ga.population[1], i, j)
        /\ ValidRoute(result.route)

\* every individual of every generation is a permutation starting at start_index
EveryIndividualIsRoute ==
    /\ Len(ga.population) = PopulationSize
    /\ \A k \in 1 .. Len(ga.population) : ValidRoute(ga.population[k])

\* C24: order crossover and swap mutation preserve the route invariant: the
\* child of two routes keeps parent 1's slice in place, has the unused nodes
\* in parent-2 order elsewhere, starts at start_index and is a permutation;
\* mutation exchanges two positions behind the start; so every individual of
\* every generation is a permutation starting at start_index
C24_BreedingPreservesRoutes ==
    /\ CrossoverPreservesRoutes
    /\ CrossoverChildIsOfSomeCut
    /\ MutationSwapsBehindStart
    /\ EveryIndividualIsRoute

\* a child that is neither of its two different parents
C24_Witness ==
    /\ pc = "crossed"
    /\ ga.population[1] # ga.population[2]
    /\ result.route # ga.population[1]
    /\ result.route # ga.population[2]

(* ------------------- generations of the genetic algorithm --------------- *)
\* the route is a crossover child of two members of the population, with or
\* without one exchange of two positions behind the start
BredFrom(route, population) ==
    \E p \in 1 .. Len(population) : \E q \in 1 .. Len(population) :
        \E cut \in CutPoints : \E child \in {ChildAt(population[p], population[q], cut)} :
            \E i \in 1 .. (n - 1) : \E j \in 1 .. (n - 1) : route = Swap(child, i, j)

\* the least open-path cost in a population
LeastCostIn(population) ==
    CHOOSE c \in {OpenPathCost(population[k], distance_matrix) :
                      k \in 1 .. Len(population)} :
        \A k \in 1 .. Len(population) : c <= OpenPathCost(population[k], distance_matrix)

\* a generation puts population_size children in the place of the population
GaReplacesPopulation ==
    (pc = "breed" /\ ga'.generation # ga.generation) =>
        /\ ga'.generation = ga.generation + 1
        /\ ga.generation < MaxBreedGenerations
        /\ Len(ga'.population) = PopulationSize
        /\ \A k \in 1 .. PopulationSize : BredFrom(ga'.population[k], ga.population)

\* the return comes after the last generation and gives a member of the final
\* population of least cost
GaReturnsMinimum ==
    (pc = "breed" /\ pc' = "ga_returned") =>
        /\ ga.generation = MaxBreedGenerations
        /\ ga' = ga
        /\ InRoute(result'.route, ga.population)
        /\ result'.cost = OpenPathCost(result'.route, distance_matrix)
        /\ result'.cost = LeastCostIn(ga.population)

\* C25: each generation of the genetic algorithm replaces the whole population
\* by exactly population_size new children, none kept by elitism, and after
\* the last generation the algorithm returns a member of the final population
\* whose open-path cost is the least of that population
C25_GaReplacesAndReturnsMinimum ==
    /\ [](Len(ga.population) = PopulationSize /\ ga.generation <= MaxBreedGenerations)
    /\ [][GaReplacesPopulation /\ GaReturnsMinimum]_vars

\* the run returned after its generations, and no member of the final
\* population is as cheap as the fixed initial route, a member of the
\* population the last generation was bred from: the best was not kept
C25_Witness ==
    /\ pc = "ga_returned"
    /\ ga.generation = MaxBreedGenerations
    /\ result.cost > OpenPathCost(InitialRoute(n, start_index), distance_matrix)

(* ------------------------- ant colony's best ---------------------------- *)
InAcoLoop == pc = "aco_loop"

\* the route the next ant constructs
NextAntRoute == construct_ant_route(n, start_index, aco.inf_edges, rng).route

\* the tracked best is a route once an ant has finished, its cost is the
\* open-path cost of that route, and no route of the running iteration is
\* cheaper
AcoBestIsTracked ==
    InAcoLoop =>
        /\ (aco.iteration > 0 \/ aco.ant > 0) <=> aco.best_route # NoRoute
        /\ aco.best_route # NoRoute =>
               /\ ValidRoute(aco.best_route)
               /\ aco.best_cost = OpenPathCost(aco.best_route, distance_matrix)
        /\ aco.best_route = NoRoute => aco.best_cost = Inf
        /\ \A k \in 1 .. Len(aco.routes) :
               aco.best_cost <= OpenPathCost(aco.routes[k], distance_matrix)

\* an ant that returns a route leaves the tracked best cost at the lesser of
\* what it was and the cost of the ant's route: it never rises
AcoBestIsMinimumSoFar ==
    (InAcoLoop /\ pc' = "aco_loop") =>
        /\ aco'.best_cost = Min(aco.best_cost,
                                OpenPathCost(NextAntRoute, distance_matrix))
        /\ aco'.best_cost <= aco.best_cost

\* the route returned is the tracked best
AcoReturnsBest ==
    (InAcoLoop /\ pc' = "two_opt") =>
        /\ algorithms'[Len(algorithms')].name = "Ant Colony"
        /\ algorithms'[Len(algorithms')].route = aco.best_route
        /\ aco.best_route # NoRoute

\* C26: ant colony optimization returns the global best: the tracked best cost
\* never rises from ant to ant and iteration to iteration, it is the least
\* cost of the routes constructed so far, and the route returned is the
\* tracked best
C26_AcoReturnsGlobalBest ==
    /\ []AcoBestIsTracked
    /\ [][AcoBestIsMinimumSoFar /\ AcoReturnsBest]_vars

\* in a later iteration an ant has constructed a route that costs more than
\* the tracked best
C26_Witness ==
    /\ InAcoLoop
    /\ aco.iteration > 0
    /\ \E k \in 1 .. Len(aco.routes) :
           OpenPathCost(aco.routes[k], distance_matrix) > aco.best_cost

(* ------------------- 2-opt under the open-path cost --------------------- *)
\* C27: 2-opt is an improvement pass under the route cost the coordinator
\* uses: for every seed route and symmetric matrix the route returned by
\* two_opt_improvement, and by two_opt_optimization, has an open-path cost
\* that is at most the open-path cost of the seed
C27_TwoOptNotAboveSeed ==
    pc = "two_opt_twice" =>
        /\ calculate_route_cost(algorithms[1].route, distance_matrix)
               <= calculate_route_cost(result.route, distance_matrix)
        /\ classical_calculate_route_cost(algorithms[3].route, distance_matrix)
               <= classical_calculate_route_cost(result.route, distance_matrix)

(* --------------------- 3-opt under the open-path cost ------------------- *)
\* three_opt_improvement is about to be called on a seed route long enough to
\* have a triple, over the matrix of the widest spread of distances
InitThreeOptSweep ==
    /\ n \in 4 .. MaxThreeOptSeed
    /\ distance_matrix = Matrix(n, MaxShape)
    /\ \E route \in Orderings(n) :
           /\ result = [NoResult EXCEPT !.route = route]
           /\ start_index = route[1]
    /\ rng = 0
    /\ pc = "three_opt"
    /\ algorithms = <<>>
    /\ qaoa = QaoaIdle
    /\ sa = SaIdle
    /\ ga = GaIdle
    /\ aco = AcoIdle
    /\ called = {}
    /\ raised = {}

SpecThreeOptSweep == InitThreeOptSweep /\ [][NextThreeOpt]_vars

\* the triples i < j < k of the sweep over a route of the given length
Triples(length) ==
    {t \in (1 .. (length - 3)) \X (2 .. (length - 2)) \X (3 .. (length - 1)) :
        t[1] < t[2] /\ t[2] < t[3]}

\* the lists of moves generate_3opt_moves makes over the sweep
MovesOf(route) ==
    {generate_3opt_moves(route, t[1], t[2], t[3]) : t \in Triples(Len(route))}

\* the reconnection variants of every triple
VariantsOf(route) == UNION {{moves[m] : m \in 1 .. Len(moves)} : moves \in MovesOf(route)}

\* the route is of least open-path cost among the routes
LeastAmong(route, routes) ==
    /\ route \in routes
    /\ \E cost \in {OpenPathCost(route, distance_matrix)} :
           \A other \in routes : cost <= OpenPathCost(other, distance_matrix)

\* every triple gives 7 variants, each a permutation of the seed's nodes with
\* the seed's first node first
VariantsAreRoutes ==
    /\ \A moves \in MovesOf(result.route) : Len(moves) = 7
    /\ \A variant \in VariantsOf(result.route) : ValidRoute(variant)

\* C28: three_opt_improvement returns a route of least open-path cost among
\* the seed and the 7 reconnection variants of every triple i < j < k, so
\* that its result never costs more than the seed; every variant keeps the
\* seed's first node in position 0 and is a permutation of the seed's nodes
C28_ThreeOptKeepsMinimum ==
    pc = "three_opt_twice" =>
        /\ LeastAmong(algorithms[1].route, {result.route} \cup VariantsOf(result.route))
        /\ calculate_route_cost(algorithms[1].route, distance_matrix)
               <= calculate_route_cost(result.route, distance_matrix)
        /\ VariantsAreRoutes

\* a seed of six nodes that 3-opt made cheaper by a variant of another triple
\* than the first
C28_Witness ==
    /\ pc = "three_opt_twice"
    /\ Len(result.route) >= ThreeOptMinNodes
    /\ calculate_route_cost(algorithms[1].route, distance_matrix)
           < calculate_route_cost(result.route, distance_matrix)
    /\ \A m \in 1 .. 7 :
           algorithms[1].route # generate_3opt_moves(result.route, 1, 2, 3)[m]

(* ------------------------------ shared data ----------------------------- *)
\* no step of the service writes to the distance matrix
MatrixIsReadOnly == distance_matrix' = distance_matrix

\* heuristic_optimization leaves the candidate routes its caller holds as
\* they were
CandidatesAreReadOnly ==
    pc = "heuristic_optimization" => algorithms' = algorithms

ClassicalRouteFromZero ==
    pc = "start_index_offset" =>
        /\ IsPermutation(result.route, n)
        /\ result.route[1] = 0

\* the route of the response: a permutation that starts at start_index, after
\* a candidate of the quantum layer as after the classical fallback
ServedRouteFromStart ==
    pc = "responded" =>
        /\ result.returned
        /\ result.backend \in {"Hybrid", "Classical Fallback"}
        /\ ValidRoute(result.route)

\* the route of the response is the classical optimizer's route rotated
ServedRouteIsRotation ==
    pc = "start_index_offset" =>
        \E start_pos \in 1 .. n : result'.route = RotateAt(result.route, start_pos)

\* C30: for /api/optimize with 0 <= start_index < n the returned route is a
\* permutation of 0..n-1 whose first element is start_index, a rotation of
\* the classical optimizer's route, whether the quantum layer gave a
\* candidate or the classical fallback was used
C30_ServedRouteStartsAtStart ==
    /\ [](ClassicalRouteFromZero /\ ServedRouteFromStart)
    /\ [][ServedRouteIsRotation]_vars

\* a response after a candidate of the quantum layer, for a start other than
\* node 0 that the classical route did not have in second or last place
C30_Witness ==
    /\ pc = "responded"
    /\ result.backend = "Hybrid"
    /\ n >= 4
    /\ start_index > 0
    /\ result.route[n] # 0
    /\ result.route[2] # 0

====
